---- MODULE Spec2Model ----
(***************************************************************************)
(* A model of the personalization decision engine of lua_package:          *)
(*   src/src/storage/weighted-history.js   the visit history store         *)
(*   src/src/ai-personalize.js             cache, model gateway, aiDecide  *)
(*   src/src/personalization.js            DecisionEngine, personalize     *)
(* The key-value store (localStorage), the clock (Date.now), the UUID      *)
(* generator and the model endpoint (fetch) are the environment.           *)
(***************************************************************************)
EXTENDS Integers, Sequences, FiniteSets, TLC

VARIABLES
    now,        \* Date.now(), in ms
    storage,    \* state of localStorage: "ok", "full" (setItem throws) or "down"
    hist,       \* value under STORAGE_KEY: <<>> (absent) or <<history>>
    cache,      \* the cache entries of localStorage, by cache key
    req,        \* the decision requests, one record per request slot
    uuids,      \* how many UUIDs generateUUID has returned
    seen,       \* userIds returned by getHistory since the last clearHistory
    recorded,   \* the recordVisit calls made since the last clearHistory
    started,    \* how many decision requests the page has made
    lua,        \* the A/B assignment object of the page: <<>> or <<its fields>>
    weights,    \* the calculateWeight calls of the page, each with its result
    abortable   \* typeof AbortController !== 'undefined'

vars == <<now, storage, hist, cache, req, uuids, seen, recorded, started, lua, weights,
          abortable>>

----------------------------------------------------------------------------
(* Bounds of the model *)

MaxDays == 1            \* the clock runs over 0 .. MaxDays days
MaxRecorded == 2        \* recordVisit calls per run of the history store
MaxSize == 1            \* largest maxHistorySize passed by a caller
MaxUuids == 2           \* UUIDs generated per run

----------------------------------------------------------------------------
(* Program constants *)

DEFAULT_MAX_HISTORY == 10
DEFAULT_MAX_WEIGHTED == 5
MS_PER_DAY == 1000 * 60 * 60 * 24
DEFAULT_DECAY_RATE == [num |-> 9, den |-> 10]

\* Properties every object literal inherits from Object.prototype: a lookup
\* obj[key] finds them although they are no keys of obj.
ProtoKeys == {"constructor"}

----------------------------------------------------------------------------
(* Optional values: <<>> is undefined, <<x>> is x *)

Undefined == <<>>
Some(x) == <<x>>
IsDefined(o) == o # <<>>

\* a || b for an optional number: 0 and undefined are falsy
OrNumber(o, dflt) == IF IsDefined(o) /\ o[1] # 0 THEN o[1] ELSE dflt

\* a || b for a string: "" stands for the empty string and for undefined
OrString(s, dflt) == IF s # "" THEN s ELSE dflt

Max(a, b) == IF a >= b THEN a ELSE b

\* the element of a singleton; The({e(x) : x \in {v}}) computes v once
The(S) == CHOOSE x \in S : TRUE

RECURSIVE Pow(_, _)
Pow(b, e) == IF e = 0 THEN 1 ELSE b * Pow(b, e - 1)

\* Array.prototype.slice(start) with a start that may be negative
Slice(s, start) ==
    LET from == IF start < 0 THEN Max(Len(s) + start, 0) ELSE start
    IN  IF from >= Len(s) THEN <<>> ELSE SubSeq(s, from + 1, Len(s))

\* Array.prototype.slice(0, n) for n >= 0
Take(s, n) == IF n >= Len(s) THEN s ELSE SubSeq(s, 1, n)

----------------------------------------------------------------------------
(* localStorage helpers of the history store *)

\* the probe writes and removes a test key: it fails when storage is absent,
\* denied, or refuses writes
isLocalStorageAvailable(st) == st = "ok"

readFromStorage(st, h) == IF isLocalStorageAvailable(st) THEN h ELSE <<>>

\* the store after writeToStorage(history)
writeToStorage(st, h, history) ==
    IF isLocalStorageAvailable(st) THEN <<history>> ELSE h

----------------------------------------------------------------------------
(* Weighted decay *)

\* a calculateWeight that does not clamp the age of a visit of the future
calculateWeightUnclamped(timestamp, decayRate, t) ==
    LET rate == IF decayRate = <<>> THEN DEFAULT_DECAY_RATE ELSE decayRate[1]
        daysAgo == (t - timestamp) \div MS_PER_DAY
    IN  IF daysAgo >= 0
        THEN [num |-> Pow(rate.num, daysAgo), den |-> Pow(rate.den, daysAgo)]
        ELSE [num |-> Pow(rate.den, 0 - daysAgo), den |-> Pow(rate.num, 0 - daysAgo)]

\* Math.pow(decayRate, daysAgo) as the fraction num / den, for a decay rate
\* given as a fraction (<<>> when it is no number) and an age of whole days
calculateWeight(timestamp, decayRate, t) ==
    LET rate == IF decayRate = <<>> THEN DEFAULT_DECAY_RATE ELSE decayRate[1]
        daysAgo == Max(0, (t - timestamp) \div MS_PER_DAY)
    IN  [num |-> Pow(rate.num, daysAgo), den |-> Pow(rate.den, daysAgo)]

\* Math.round(weight * 1000): the weight of a weighted visit, in thousandths
roundWeight(weight) == (2 * 1000 * weight.num + weight.den) \div (2 * weight.den)

\* weighted.sort(function (a, b) { return b.weight - a.weight }): stable
RECURSIVE InsertByWeight(_, _)
InsertByWeight(sorted, w) ==
    IF sorted = <<>> THEN <<w>>
    ELSE IF Head(sorted).weight >= w.weight
         THEN <<Head(sorted)>> \o InsertByWeight(Tail(sorted), w)
         ELSE <<w>> \o sorted

RECURSIVE SortByWeight(_)
SortByWeight(s) ==
    IF s = <<>> THEN <<>>
    ELSE InsertByWeight(SortByWeight(SubSeq(s, 1, Len(s) - 1)), s[Len(s)])

buildWeightedContext(history, decayRate, maxWeighted, t) ==
    LET rate == IF IsDefined(decayRate) THEN decayRate[1] ELSE DEFAULT_DECAY_RATE
        top == OrNumber(maxWeighted, DEFAULT_MAX_WEIGHTED)
        weighted == [i \in 1..Len(history.visits) |->
            LET visit == history.visits[i]
            IN  [timestamp |-> visit.timestamp,
                 weight |-> roundWeight(calculateWeight(visit.timestamp, Some(rate), t)),
                 intent |-> OrString(visit.intent, "unknown"),
                 selectedVariant |-> visit.selectedVariant,
                 source |-> OrString(visit.source, "unknown"),
                 aiDecision |-> visit.aiDecision,
                 context |-> visit.context]]
    IN  Take(SortByWeight(weighted), top)

\* aggregatePreferences without the test for the sentinel intents
RECURSIVE aggregateEveryIntent(_)
aggregateEveryIntent(weightedVisits) ==
    IF weightedVisits = <<>> THEN <<>>
    ELSE LET scores == aggregateEveryIntent(SubSeq(weightedVisits, 1, Len(weightedVisits) - 1))
             visit == weightedVisits[Len(weightedVisits)]
             intent == visit.intent
         IN  IF intent = "" THEN scores
             ELSE IF intent \in DOMAIN scores
                  THEN [scores EXCEPT ![intent] = @ + visit.weight]
                  ELSE [k \in DOMAIN scores \cup {intent} |->
                           IF k # intent THEN scores[k] ELSE visit.weight]

\* the score map: its domain are the keys of the object, a value its score
\* in thousandths. scores[intent] of an inherited property is truthy, so the
\* += makes it a string: the key appears with a value that is no number (-1)
RECURSIVE aggregatePreferences(_)
aggregatePreferences(weightedVisits) ==
    IF weightedVisits = <<>> THEN <<>>
    ELSE LET scores == aggregatePreferences(SubSeq(weightedVisits, 1, Len(weightedVisits) - 1))
             visit == weightedVisits[Len(weightedVisits)]
             intent == visit.intent
         IN  IF intent = "" \/ intent = "unknown" \/ intent = "default" THEN scores
             ELSE IF intent \in DOMAIN scores
                  THEN [scores EXCEPT ![intent] = IF @ = -1 THEN -1 ELSE @ + visit.weight]
                  ELSE [k \in DOMAIN scores \cup {intent} |->
                           IF k # intent THEN scores[k]
                           ELSE IF intent \in ProtoKeys THEN -1 ELSE visit.weight]

----------------------------------------------------------------------------
(* History management.  An operation on the store is an operator from the   *)
(* store before it to [ret |-> what it returns, hist |-> the store after].  *)

\* the n-th UUID generateUUID returns: 122 random bits, no two alike
generateUUID(n) == n + 1

\* n is the number of UUIDs generated so far, t is Date.now()
getHistory(st, h, n, t) ==
    LET history == readFromStorage(st, h)
    IN  IF history # <<>>
        THEN [ret |-> history[1], hist |-> h, uuids |-> n]
        ELSE LET fresh == [userId |-> generateUUID(n), createdAt |-> t,
                           visits |-> <<>>, preferences |-> <<>>]
             IN  [ret |-> fresh, hist |-> writeToStorage(st, h, fresh), uuids |-> n + 1]

deviceClass(userAgent) ==
    IF userAgent.isMobile THEN "mobile"
    ELSE IF userAgent.isTablet THEN "tablet" ELSE "desktop"

\* the context a visit stores: utm, referrer {source, category}, device
\* a minimal context that keeps the referrer object as it was passed
minimalContextWholeReferrer(context) ==
    IF context = <<>> THEN [utm |-> <<>>, referrer |-> <<>>, device |-> ""]
    ELSE [utm |-> context[1].utm,
          referrer |-> context[1].referrer,
          device |-> IF context[1].userAgent = <<>> THEN ""
                     ELSE deviceClass(context[1].userAgent[1])]

minimalContext(context) ==
    IF context = <<>> THEN [utm |-> <<>>, referrer |-> <<>>, device |-> ""]
    ELSE [utm |-> context[1].utm,
          referrer |-> IF context[1].referrer = <<>> THEN <<>>
                       ELSE <<[source |-> context[1].referrer[1].source,
                               category |-> context[1].referrer[1].category]>>,
          device |-> IF context[1].userAgent = <<>> THEN ""
                     ELSE deviceClass(context[1].userAgent[1])]

trimVisits(visits, maxHistorySize) ==
    IF Len(visits) > maxHistorySize THEN Slice(visits, -maxHistorySize) ELSE visits

\* a recordVisit that writes a history holding its own visit only, as a
\* writer does that started from a history read before the other visits
recordVisitLastOnly(st, h, n, t, visitData, options) ==
    LET visit == [timestamp |-> t,
                  context |-> minimalContext(visitData.context),
                  intent |-> OrString(visitData.intent, "unknown"),
                  selectedVariant |-> visitData.selectedVariant,
                  source |-> OrString(visitData.source, "unknown"),
                  aiDecision |-> visitData.aiDecision]
    IN  The({The({[ret |-> history,
                   hist |-> writeToStorage(st, got.hist, history),
                   uuids |-> got.uuids] :
                history \in {[got.ret EXCEPT
                    !.visits = <<visit>>,
                    !.preferences = aggregatePreferences(
                        buildWeightedContext([got.ret EXCEPT !.visits = <<visit>>],
                            options.decayRate, options.maxWeighted, t))]}}) :
        got \in {getHistory(st, h, n, t)}})

recordVisit(st, h, n, t, visitData, options) ==
    LET maxHistorySize == OrNumber(options.maxHistorySize, DEFAULT_MAX_HISTORY)
        visit == [timestamp |-> t,
                  context |-> minimalContext(visitData.context),
                  intent |-> OrString(visitData.intent, "unknown"),
                  selectedVariant |-> visitData.selectedVariant,
                  source |-> OrString(visitData.source, "unknown"),
                  aiDecision |-> visitData.aiDecision]
    IN  The({The({The({[ret |-> history,
                        hist |-> writeToStorage(st, got.hist, history),
                        uuids |-> got.uuids] :
                history \in {[got.ret EXCEPT
                    !.visits = trimmed,
                    !.preferences = aggregatePreferences(
                        buildWeightedContext([got.ret EXCEPT !.visits = trimmed],
                            options.decayRate, options.maxWeighted, t))]}}) :
            trimmed \in {trimVisits(Append(got.ret.visits, visit), maxHistorySize)}}) :
        got \in {getHistory(st, h, n, t)}})

\* clearHistory: [ret |-> whether it removed the key, hist |-> the store after]
clearHistory(st, h) ==
    IF isLocalStorageAvailable(st) THEN [ret |-> TRUE, hist |-> <<>>]
    ELSE [ret |-> FALSE, hist |-> h]

getLastVisit(st, h) ==
    LET history == readFromStorage(st, h)
    IN  IF history = <<>> \/ history[1].visits = <<>> THEN <<>>
        ELSE <<history[1].visits[Len(history[1].visits)]>>

isReturningUser(st, h) ==
    LET history == readFromStorage(st, h)
    IN  history # <<>> /\ Len(history[1].visits) > 0

----------------------------------------------------------------------------
(* The history store's API, called by the page.                            *)

\* what callers of recordVisit pass: an intent of the catalog, the
\* sentinels 'unknown' and 'default', and no intent at all ("")
HistIntents == {"", "unknown", "default", "gaming"}

VisitInputs ==
    {[context |-> <<>>, intent |-> i, selectedVariant |-> i,
      source |-> "test", aiDecision |-> FALSE] : i \in HistIntents}

\* options.maxHistorySize: not given, or 0 .. MaxSize
SizeOptions == {Undefined} \cup {Some(n) : n \in 0..MaxSize}

NoneRecorded ==
    [state |-> "none", size |-> Undefined, visits |-> <<>>, calls |-> 0,
     userIds |-> {}, lengths |-> <<>>]

\* the log of the recordVisit calls: the calls so far were all made with
\* the same maxHistorySize ("same"), or not ("mixed", and the visits are
\* dropped); userIds and lengths are the userId and the number of visits of
\* the history each call returned
logVisit(log, size, history) ==
    IF log.state = "none" \/ (log.state = "same" /\ log.size = size)
    THEN [state |-> "same", size |-> size,
          visits |-> Append(log.visits, history.visits[Len(history.visits)]),
          calls |-> log.calls + 1,
          userIds |-> log.userIds \cup {history.userId},
          lengths |-> Append(log.lengths, Len(history.visits))]
    ELSE [state |-> "mixed", size |-> Undefined,
          visits |-> <<>>, calls |-> log.calls + 1,
          userIds |-> log.userIds \cup {history.userId},
          lengths |-> Append(log.lengths, Len(history.visits))]

\* the cap on the UUIDs: a call that would generate one more is not made
withinUuids == IF readFromStorage(storage, hist) # <<>> THEN TRUE ELSE uuids < MaxUuids

GetHistory ==
    /\ withinUuids
    /\ LET r == getHistory(storage, hist, uuids, now)
       IN  /\ hist' = r.hist
           /\ uuids' = r.uuids
           /\ seen' = seen \cup {r.ret.userId}
           /\ UNCHANGED <<abortable, weights, lua, now, storage, cache, req, recorded, started>>

RecordVisit ==
    /\ withinUuids
    /\ recorded.calls < MaxRecorded
    /\ \E visitData \in VisitInputs, size \in SizeOptions :
        LET options == [maxHistorySize |-> size, decayRate |-> Undefined,
                        maxWeighted |-> Undefined]
            r == recordVisit(storage, hist, uuids, now, visitData, options)
        IN  /\ hist' = r.hist
            /\ uuids' = r.uuids
            /\ recorded' = logVisit(recorded, size, r.ret)
            /\ UNCHANGED <<abortable, weights, lua, now, storage, cache, req, seen, started>>

ClearHistory ==
    LET r == clearHistory(storage, hist)
    IN  /\ hist' = r.hist
        /\ seen' = {}
        /\ recorded' = [NoneRecorded EXCEPT !.calls = recorded.calls]
        /\ UNCHANGED <<abortable, weights, lua, now, storage, cache, req, uuids, started>>

----------------------------------------------------------------------------
(* The environment: the clock and the key-value store                      *)

\* Date.now() is positive: the clock starts on day 1
FirstDay == MS_PER_DAY

Tick ==
    /\ now < FirstDay + MaxDays * MS_PER_DAY
    /\ now' = now + MS_PER_DAY
    /\ UNCHANGED <<abortable, weights, lua, storage, hist, cache, req, uuids, seen, recorded, started>>

\* the quota of the origin is used up, and stays so: setItem throws from now on
QuotaFill ==
    /\ storage = "ok"
    /\ storage' = "full"
    /\ UNCHANGED <<abortable, weights, lua, now, hist, cache, req, uuids, seen, recorded, started>>

----------------------------------------------------------------------------
(* The history store on its own                                            *)

\* a page load: nothing stored yet, or a browser without localStorage
InitEnv ==
    /\ now = FirstDay
    /\ storage \in {"ok", "down"}
    /\ hist = <<>>
    /\ cache = <<>>
    /\ uuids = 0
    /\ seen = {}
    /\ recorded = NoneRecorded
    /\ started = 0

InitStore == InitEnv /\ req = <<>> /\ lua = <<>> /\ weights = {} /\ abortable = TRUE

NextHistory ==
    \/ GetHistory
    \/ RecordVisit
    \/ ClearHistory
    \/ Tick
    \/ QuotaFill

SpecHistory == InitStore /\ [][NextHistory]_vars

----------------------------------------------------------------------------
(* Visitor contexts, catalogs and rules of the decision requests           *)

NoUtm == [utm_source |-> "", utm_medium |-> "", utm_campaign |-> "",
          utm_content |-> "", utm_term |-> ""]

Desktop == [raw |-> "Mozilla/5.0", isMobile |-> FALSE, isTablet |-> FALSE, isDesktop |-> TRUE]

\* a campaign visit: LuaUTM infers the intent 'gaming' from the campaign
CtxCampaign ==
    [utm |-> Some([NoUtm EXCEPT !.utm_source = "reddit", !.utm_campaign = "gaming_console"]),
     referrer |-> Some([source |-> "reddit", category |-> "social", url |-> "https://reddit.com/r/x"]),
     userAgent |-> Some(Desktop), hasUTM |-> TRUE, primaryIntent |-> "gaming"]

\* a direct visit
CtxDirect ==
    [utm |-> Some(NoUtm),
     referrer |-> Some([source |-> "direct", category |-> "direct", url |-> ""]),
     userAgent |-> Some(Desktop), hasUTM |-> FALSE, primaryIntent |-> "default"]

\* a visit from a search engine: the inferred intent is no key of the catalogs
CtxSearch ==
    [utm |-> Some(NoUtm),
     referrer |-> Some([source |-> "google", category |-> "search", url |-> "https://google.com/"]),
     userAgent |-> Some(Desktop), hasUTM |-> FALSE, primaryIntent |-> "search-optimized"]

\* LuaUTM.inferIntent: the campaign, then the source, then the category of
\* the referrer.  Of the campaigns and sources below, 'gaming_console'
\* matches /gaming|game|esport/ and 'google' matches /google|bing|yahoo/;
\* 'reddit' matches no pattern
inferIntent(context) ==
    IF context.utm[1].utm_campaign = "gaming_console" THEN "gaming"
    ELSE IF context.utm[1].utm_source = "google" THEN "search-optimized"
    ELSE IF context.referrer[1].category = "search" THEN "search-optimized"
    ELSE IF context.referrer[1].category = "social" THEN "social-visual"
    ELSE IF context.referrer[1].category = "email" THEN "returning-user"
    ELSE "default"

\* LuaUTM.getContext
getContext(utm, referrer) ==
    LET context == [utm |-> Some(utm), referrer |-> Some(referrer),
                    userAgent |-> Some(Desktop), hasUTM |-> utm # NoUtm,
                    primaryIntent |-> "unknown"]
    IN  [context EXCEPT !.primaryIntent = inferIntent(context)]

\* a tagged link whose tags tell no intent
CtxTagged ==
    getContext([NoUtm EXCEPT !.utm_source = "reddit"],
               [source |-> "direct", category |-> "direct", url |-> ""])

\* a visit from a site LuaUTM does not know
CtxExternal ==
    getContext(NoUtm, [source |-> "external", category |-> "other",
                       url |-> "https://example.org/"])

\* The query string of the page: for each UTM parameter its value as the
\* sequence of its characters, <<>> when the parameter is missing or empty
UTM_PARAMS == <<"utm_source", "utm_medium", "utm_campaign", "utm_content", "utm_term">>

\* of the characters of the query strings below, those that
\* /[^\w\s\-_.]/ does not match
SafeChars == {"a", "b", "m", "x", "y", "_", "-", ".", " "}

\* the string of a sequence of characters
RECURSIVE Text(_)
Text(chars) == IF chars = <<>> THEN "" ELSE Head(chars) \o Text(Tail(chars))

\* replace(/<[^>]*>/g, ''): every '<' up to the next '>' is removed
RECURSIVE stripTags(_)
stripTags(chars) ==
    IF chars = <<>> THEN <<>>
    ELSE IF Head(chars) = "<" /\ \E i \in 2..Len(chars) : chars[i] = ">"
    THEN stripTags(Slice(chars, CHOOSE i \in 2..Len(chars) :
                                   /\ chars[i] = ">"
                                   /\ \A j \in 2..(i - 1) : chars[j] # ">"))
    ELSE <<Head(chars)>> \o stripTags(Tail(chars))

\* String.prototype.trim
RECURSIVE trim(_)
trim(chars) ==
    IF chars = <<>> THEN <<>>
    ELSE IF Head(chars) = " " THEN trim(Tail(chars))
    ELSE IF chars[Len(chars)] = " " THEN trim(SubSeq(chars, 1, Len(chars) - 1))
    ELSE chars

\* a sanitizeParam that lets the colon through
sanitizeKeepingColon(value) ==
    Text(trim(Take(SelectSeq(stripTags(value), LAMBDA ch : ch \in SafeChars \cup {":"}), 100)))

sanitizeParam(value) ==
    Text(trim(Take(SelectSeq(stripTags(value), LAMBDA ch : ch \in SafeChars), 100)))

\* extractUTMParams(url): the sanitized value of each parameter that has one
extractUTMParams(search) ==
    [param \in DOMAIN NoUtm |->
        IF search[param] = <<>> THEN "" ELSE sanitizeParam(search[param])]

\* navigator.userAgent of a phone
Mobile ==
    [raw |-> "Mozilla/5.0 (iPhone)", isMobile |-> TRUE, isTablet |-> FALSE, isDesktop |-> FALSE]

\* LuaUTM.getContext() on a page with this query string, referrer and
\* user agent at time t; hasUTM tells whether a parameter has a value
getContextAt(search, referrer, userAgent, t) ==
    LET context == [utm |-> Some(extractUTMParams(search)), referrer |-> Some(referrer),
                    userAgent |-> Some(userAgent), timestamp |-> t,
                    hasUTM |-> \E i \in DOMAIN UTM_PARAMS : search[UTM_PARAMS[i]] # <<>>,
                    primaryIntent |-> "unknown"]
    IN  [context EXCEPT !.primaryIntent = inferIntent(context)]

\* options.templates: the keys of the catalog in the order of their declaration;
\* the template of key k is written k
CatalogWithDefault == <<"gaming", "default">>
CatalogNoDefault == <<"professional", "gaming">>
CatalogNumbered == <<"professional", "404">>

\* options.rules, in the order of their declaration; match is the set of the
\* contexts the rule's predicate accepts
NoRules == <<>>
SearchRule == <<[name |-> "from-search", match |-> {CtxSearch}, intent |-> "gaming"]>>
\* two rules accept a visit from a search engine; the first names no intent
TwoRules ==
    <<[name |-> "professional", match |-> {CtxSearch}, intent |-> ""],
      [name |-> "everyone", match |-> {CtxSearch, CtxDirect, CtxExternal},
       intent |-> "gaming"]>>
\* rules named by numbers, both accepting a direct visit
NumberedRules ==
    <<[name |-> "10", match |-> {CtxDirect}, intent |-> "professional"],
      [name |-> "2", match |-> {CtxDirect, CtxTagged}, intent |-> "gaming"]>>

Keys(templates) == {templates[i] : i \in 1..Len(templates)}

\* the number a property name stands for when it is an array index
\* ("2", "10" and "404" are the names of this kind below), else -1
ArrayIndex(name) ==
    IF name = "2" THEN 2 ELSE IF name = "10" THEN 10
    ELSE IF name = "404" THEN 404 ELSE -1

\* the positions I of names, ordered by the array index of the name
RECURSIVE Ascending(_, _)
Ascending(names, I) ==
    IF I = {} THEN <<>>
    ELSE LET least == CHOOSE i \in I :
                        \A j \in I : ArrayIndex(names[i]) <= ArrayIndex(names[j])
         IN  <<least>> \o Ascending(names, I \ {least})

\* the order in which for-in and Object.keys visit the own properties of an
\* object declared with names in this order: the array indices in ascending
\* order, then the other names in the order of their declaration.  The
\* result is the sequence of the positions in names
enumerationOrder(names) ==
    Ascending(names, {i \in 1..Len(names) : ArrayIndex(names[i]) >= 0})
    \o SelectSeq([i \in 1..Len(names) |-> i], LAMBDA i : ArrayIndex(names[i]) < 0)

\* Object.keys(userTemplates)
ObjectKeys(templates) ==
    [k \in 1..Len(templates) |-> templates[enumerationOrder(templates)[k]]]

\* the rules in the order for (var ruleKey in customRules) visits them
forIn(customRules) ==
    LET order == enumerationOrder([i \in 1..Len(customRules) |-> customRules[i].name])
    IN  [k \in 1..Len(customRules) |-> customRules[order[k]]]

\* what obj[key] finds in Object.prototype
Inherited == "Object.prototype.constructor"

\* templates[key]: the template, an inherited property, or "" (undefined)
Lookup(templates, key) ==
    IF key \in Keys(templates) THEN key
    ELSE IF key \in ProtoKeys THEN Inherited ELSE ""

\* getTemplate without the fallback to the 'default' template
getTemplateNoDefault(intent, userTemplates) ==
    IF Lookup(userTemplates, intent) # "" THEN Lookup(userTemplates, intent)
    ELSE IF ObjectKeys(userTemplates) # <<>> THEN ObjectKeys(userTemplates)[1] ELSE ""

getTemplate(intent, userTemplates) ==
    IF Lookup(userTemplates, intent) # "" THEN Lookup(userTemplates, intent)
    ELSE IF Lookup(userTemplates, "default") # "" THEN Lookup(userTemplates, "default")
    ELSE IF ObjectKeys(userTemplates) # <<>> THEN ObjectKeys(userTemplates)[1] ELSE ""

----------------------------------------------------------------------------
(* The deterministic engine.  The store is a record                        *)
(* [hist, cache, uuids]; an operation returns its result and the store.    *)

\* the loop over the rules without its break: the last rule that accepts
RECURSIVE firstMatchNoBreak(_, _)
firstMatchNoBreak(customRules, context) ==
    IF customRules = <<>> THEN <<>>
    ELSE IF firstMatchNoBreak(Tail(customRules), context) # <<>>
         THEN firstMatchNoBreak(Tail(customRules), context)
    ELSE IF context \in Head(customRules).match THEN <<Head(customRules)>>
    ELSE <<>>

\* the loop over the rules up to its break: the first of the rules, in the
\* order they are visited, whose match accepts the context, if any
RECURSIVE firstMatch(_, _)
firstMatch(customRules, context) ==
    IF customRules = <<>> THEN <<>>
    ELSE IF context \in Head(customRules).match THEN <<Head(customRules)>>
    ELSE firstMatch(Tail(customRules), context)

\* standardDecide drawing at random whenever the intent is 'default'
standardChoiceAnySource(context, options, random) ==
    LET source0 == IF context.hasUTM THEN "utm"
                   ELSE IF context.referrer # <<>> /\ context.referrer[1].category # "direct"
                        THEN "referrer" ELSE "default"
        rule == firstMatch(forIn(options.rules), context)
        intent1 == IF rule # <<>> THEN OrString(rule[1].intent, rule[1].name)
                   ELSE context.primaryIntent
        source1 == IF rule # <<>> THEN "custom-rule" ELSE source0
    IN  IF intent1 = "default" /\ options.randomFallback # "false"
        THEN [intent |-> random, source |-> "random-ab"]
        ELSE [intent |-> intent1, source |-> source1]

\* the intent and the source standardDecide settles on; random is the key
\* getRandomFallbackIntent draws
standardChoice(context, options, random) ==
    LET source0 == IF context.hasUTM THEN "utm"
                   ELSE IF context.referrer # <<>> /\ context.referrer[1].category # "direct"
                        THEN "referrer" ELSE "default"
        rule == firstMatch(forIn(options.rules), context)
        intent1 == IF rule # <<>> THEN OrString(rule[1].intent, rule[1].name)
                   ELSE context.primaryIntent
        source1 == IF rule # <<>> THEN "custom-rule" ELSE source0
    IN  IF intent1 = "default" /\ source1 = "default" /\ options.randomFallback # "false"
        THEN [intent |-> random, source |-> "random-ab"]
        ELSE [intent |-> intent1, source |-> source1]

standardDecide(st, w, t, context, options, random) ==
    IF options.templates = <<>>
    THEN [decision |-> [template |-> "", intent |-> "default", source |-> "error",
                        context |-> context, aiResponse |-> <<>>],
          store |-> w]
    ELSE The({The({
            [decision |-> [template |-> getTemplate(c.intent, options.templates),
                           intent |-> c.intent, source |-> c.source,
                           context |-> context, aiResponse |-> <<>>],
             store |-> [w EXCEPT !.hist = r.hist, !.uuids = r.uuids]] :
            r \in {recordVisit(st, w.hist, w.uuids, t,
                      [context |-> Some(context), intent |-> c.intent,
                       selectedVariant |-> c.intent, source |-> c.source,
                       aiDecision |-> FALSE],
                      [maxHistorySize |-> Undefined, decayRate |-> Undefined,
                       maxWeighted |-> Undefined])}}) :
         c \in {standardChoice(context, options, random)}})

----------------------------------------------------------------------------
(* Configuration, cache and validation of the AI engine                    *)

DEFAULT_MAX_RETRIES == 1
DEFAULT_TIMEOUT == 5000
DEFAULT_CACHE_DURATION == 3600000
OPENAI_BASE_URL == "https://api.openai.com/v1/chat/completions"

\* apiKey, apiUrl: whether a non-blank string is given; the switches are
\* "unset", "true" or "false"; the numbers are optional
normalizeConfig(config) ==
    [valid |-> IF config.apiKey # "" THEN TRUE ELSE config.apiUrl # "",
     apiKey |-> IF config.apiKey # "" THEN Some(config.apiKey) ELSE Undefined,
     apiUrl |-> IF config.apiUrl # "" THEN config.apiUrl ELSE OPENAI_BASE_URL,
     useDirectApi |-> config.apiKey # "" /\ config.apiUrl = "",
     mode |-> IF config.mode = "generate" THEN "generate" ELSE "select",
     timeout |-> IF IsDefined(config.timeout) THEN config.timeout[1] ELSE DEFAULT_TIMEOUT,
     maxRetries |-> IF IsDefined(config.maxRetries) THEN config.maxRetries[1]
                    ELSE DEFAULT_MAX_RETRIES,
     fallbackToStandard |-> config.fallbackToStandard # "false",
     cacheDecisions |-> config.cacheDecisions # "false",
     cacheDuration |-> IF IsDefined(config.cacheDuration) THEN config.cacheDuration[1]
                       ELSE DEFAULT_CACHE_DURATION,
     historyEnabled |-> config.historyEnabled # "false",
     historyDecayRate |-> DEFAULT_DECAY_RATE,
     maxHistorySize |-> IF IsDefined(config.maxHistorySize) THEN config.maxHistorySize[1]
                        ELSE 10]

\* isReady taking every configuration for usable
isReadyAlways(aiConfig) == TRUE

isReady(aiConfig) == normalizeConfig(aiConfig).valid

\* Array.prototype.join('_') of an array of strings
RECURSIVE join(_)
join(parts) ==
    IF parts = <<>> THEN ""
    ELSE IF Len(parts) = 1 THEN parts[1]
    ELSE parts[1] \o "_" \o join(Tail(parts))

\* a cache key that tells the ads of a campaign apart: utm_content is a part
buildCacheKeyWithContent(context, mode) ==
    join(<<mode>>
    \o (IF context.utm = <<>> THEN <<>> ELSE
          (IF context.utm[1].utm_source # "" THEN <<"s:" \o context.utm[1].utm_source>> ELSE <<>>)
          \o (IF context.utm[1].utm_medium # "" THEN <<"m:" \o context.utm[1].utm_medium>> ELSE <<>>)
          \o (IF context.utm[1].utm_campaign # "" THEN <<"c:" \o context.utm[1].utm_campaign>> ELSE <<>>)
          \o (IF context.utm[1].utm_content # "" THEN <<"x:" \o context.utm[1].utm_content>> ELSE <<>>))
    \o (IF context.referrer = <<>> THEN <<>>
        ELSE <<"r:" \o OrString(context.referrer[1].source, "direct")>>)
    \o (IF context.userAgent = <<>> THEN <<>>
        ELSE <<"d:" \o (IF context.userAgent[1].isMobile THEN "mob"
                        ELSE IF context.userAgent[1].isTablet THEN "tab" ELSE "desk")>>))

\* the cache key without its prefix CACHE_KEY_PREFIX: a string
buildCacheKey(context, mode) ==
    join(<<mode>>
    \o (IF context.utm = <<>> THEN <<>> ELSE
          (IF context.utm[1].utm_source # "" THEN <<"s:" \o context.utm[1].utm_source>> ELSE <<>>)
          \o (IF context.utm[1].utm_medium # "" THEN <<"m:" \o context.utm[1].utm_medium>> ELSE <<>>)
          \o (IF context.utm[1].utm_campaign # "" THEN <<"c:" \o context.utm[1].utm_campaign>> ELSE <<>>))
    \o (IF context.referrer = <<>> THEN <<>>
        ELSE <<"r:" \o OrString(context.referrer[1].source, "direct")>>)
    \o (IF context.userAgent = <<>> THEN <<>>
        ELSE <<"d:" \o (IF context.userAgent[1].isMobile THEN "mob"
                        ELSE IF context.userAgent[1].isTablet THEN "tab" ELSE "desk")>>))

\* JSON.parse(JSON.stringify(decision)): a template that is a function is dropped
\* a copy that loses the record of the model's response
jsonCopyWithoutResponse(decision) ==
    [decision EXCEPT !.template = IF @ = Inherited THEN "" ELSE @,
                     !.aiResponse = Undefined]

jsonCopy(decision) ==
    [decision EXCEPT !.template = IF @ = Inherited THEN "" ELSE @]

getItem(c, key) == IF key \in DOMAIN c THEN <<c[key]>> ELSE <<>>

removeItem(c, key) ==
    IF DOMAIN c \ {key} = {} THEN <<>> ELSE [k \in DOMAIN c \ {key} |-> c[k]]

setItem(c, key, value) == [k \in DOMAIN c \cup {key} |-> IF k = key THEN value ELSE c[k]]

\* readCache taking an entry for expired when its age reaches cacheDuration
readCacheEarly(st, c, cacheKey, cacheDuration, t) ==
    IF st = "down" THEN [decision |-> <<>>, cache |-> c, look |-> "unreadable"]
    ELSE LET raw == getItem(c, cacheKey)
         IN  IF raw = <<>> THEN [decision |-> <<>>, cache |-> c, look |-> "absent"]
             ELSE IF t - raw[1].timestamp >= cacheDuration
                  THEN [decision |-> <<>>, cache |-> removeItem(c, cacheKey), look |-> "expired"]
                  ELSE [decision |-> <<raw[1].decision>>, cache |-> c, look |-> "hit"]

\* readCache leaving an expired entry in the store
readCacheKeeping(st, c, cacheKey, cacheDuration, t) ==
    IF st = "down" THEN [decision |-> <<>>, cache |-> c, look |-> "unreadable"]
    ELSE LET raw == getItem(c, cacheKey)
         IN  IF raw = <<>> THEN [decision |-> <<>>, cache |-> c, look |-> "absent"]
             ELSE IF t - raw[1].timestamp > cacheDuration
                  THEN [decision |-> <<>>, cache |-> c, look |-> "expired"]
                  ELSE [decision |-> <<raw[1].decision>>, cache |-> c, look |-> "hit"]

\* a readCache that renews an entry it serves: the time of the hit becomes
\* the timestamp of the entry
readCacheRefreshing(st, c, cacheKey, cacheDuration, t) ==
    IF st = "down" THEN [decision |-> <<>>, cache |-> c, look |-> "unreadable"]
    ELSE LET raw == getItem(c, cacheKey)
         IN  IF raw = <<>> THEN [decision |-> <<>>, cache |-> c, look |-> "absent"]
             ELSE IF raw[1].timestamp = 0
                  THEN [decision |-> <<>>, cache |-> c, look |-> "malformed"]
             ELSE IF t - raw[1].timestamp > cacheDuration
                  THEN [decision |-> <<>>, cache |-> removeItem(c, cacheKey), look |-> "expired"]
                  ELSE [decision |-> <<raw[1].decision>>,
                        cache |-> [c EXCEPT ![cacheKey].timestamp = t], look |-> "hit"]

\* readCache: [decision |-> the cached decision if served, cache |-> the
\* cache after, look |-> how the lookup went]
readCache(st, c, cacheKey, cacheDuration, t) ==
    IF st = "down" THEN [decision |-> <<>>, cache |-> c, look |-> "unreadable"]
    ELSE LET raw == getItem(c, cacheKey)
         IN  IF raw = <<>> THEN [decision |-> <<>>, cache |-> c, look |-> "absent"]
             ELSE IF raw[1].timestamp = 0
                  THEN [decision |-> <<>>, cache |-> c, look |-> "malformed"]
             ELSE IF t - raw[1].timestamp > cacheDuration
                  THEN [decision |-> <<>>, cache |-> removeItem(c, cacheKey), look |-> "expired"]
                  ELSE [decision |-> <<raw[1].decision>>, cache |-> c, look |-> "hit"]

\* the cache after writeCache(cacheKey, decision)
writeCache(st, c, cacheKey, decision, t) ==
    IF st = "ok"
    THEN setItem(c, cacheKey, [timestamp |-> t, decision |-> jsonCopy(decision)])
    ELSE c

\* the key of the visit history and the prefix of the keys of cached decisions
STORAGE_KEY == "lua_personalize_history"

CACHE_KEY_PREFIX == "lua_ai_cache_"

\* localStorage.key(i) for every i: the keys the two modules have stored,
\* each as the pair of its prefix and the rest
storageKeys(h, c) ==
    (IF h = <<>> THEN {} ELSE {<<STORAGE_KEY, "">>})
    \cup {<<CACHE_KEY_PREFIX, k>> : k \in DOMAIN c}

\* the storage after removeItem() for each key of keysToRemove
removeKeys(h, c, keysToRemove) ==
    [hist  |-> IF <<STORAGE_KEY, "">> \in keysToRemove THEN <<>> ELSE h,
     cache |-> IF \A k \in DOMAIN c : <<CACHE_KEY_PREFIX, k>> \in keysToRemove
               THEN <<>>
               ELSE [k \in {x \in DOMAIN c : <<CACHE_KEY_PREFIX, x>> \notin keysToRemove}
                        |-> c[k]]]

\* a clearCache that stops after the first key it finds
clearCacheFirstKey(st, h, c) ==
    IF st = "down" THEN [hist |-> h, cache |-> c]
    ELSE LET found == {key \in storageKeys(h, c) : key[1] = CACHE_KEY_PREFIX}
         IN IF found = {} THEN [hist |-> h, cache |-> c]
            ELSE removeKeys(h, c, {CHOOSE key \in found : TRUE})

\* the storage after clearCache(): the history and the cache it leaves
clearCache(st, h, c) ==
    IF st = "down" THEN [hist |-> h, cache |-> c]
    ELSE removeKeys(h, c, {key \in storageKeys(h, c) : key[1] = CACHE_KEY_PREFIX})

\* a reply of the model: selectedVariant, headline, subheadline and ctaLabel,
\* each "" when it is missing, empty or no string
validateSelectResponse(response, variants) ==
    IF response.selectedVariant = "" THEN FALSE
    ELSE Lookup(variants, response.selectedVariant) # ""

\* validateGenerateResponse asking for the headline only
validateGenerateHeadline(response) == response.headline # ""

validateGenerateResponse(response) ==
    IF response.headline = "" THEN FALSE
    ELSE IF response.subheadline = "" THEN FALSE
    ELSE response.ctaLabel # ""

\* callOpenAI sending the key whenever there is one
callOpenAIWithKey(config) ==
    [url |-> IF config.useDirectApi THEN OPENAI_BASE_URL ELSE config.apiUrl,
     Authorization |-> IF config.apiKey # Undefined
                       THEN Some([scheme |-> "Bearer", credentials |-> config.apiKey[1]])
                       ELSE Undefined]

\* the request callOpenAI hands to fetch: its URL and its Authorization
\* header, 'Bearer ' followed by the key, if it has one
callOpenAI(config) ==
    [url |-> IF config.useDirectApi THEN OPENAI_BASE_URL ELSE config.apiUrl,
     Authorization |-> IF config.useDirectApi /\ config.apiKey # Undefined
                       THEN Some([scheme |-> "Bearer", credentials |-> config.apiKey[1]])
                       ELSE Undefined]

----------------------------------------------------------------------------
(* The AI engine: aiDecide up to the request to the model, and from its    *)
(* reply on                                                                *)

Resolved(decision) == [kind |-> "decision", decision |-> decision]
Rejected(error) == [kind |-> "rejected", error |-> error]
NoResult == [kind |-> "none"]

\* aiDecide until it returns a settled promise or calls the model:
\* kind is "rejected", "resolved" or "fetch"
\* aiDecide reading the cache outside a try block: the error of an
\* unreadable store reaches the caller
aiStartUnguarded(st, w, t, context, options) ==
    LET config == normalizeConfig(options.aiConfig)
        rc == IF config.cacheDecisions
              THEN readCache(st, w.cache, buildCacheKey(context, config.mode),
                             config.cacheDuration, t)
              ELSE [decision |-> <<>>, cache |-> w.cache, look |-> "off"]
        got == IF config.historyEnabled
               THEN getHistory(st, w.hist, w.uuids, t)
               ELSE [ret |-> <<>>, hist |-> w.hist, uuids |-> w.uuids]
    IN  IF ~config.valid
        THEN [kind |-> "rejected", result |-> Rejected("config"), store |-> w, look |-> ""]
        ELSE IF rc.look = "unreadable"
        THEN [kind |-> "rejected", result |-> Rejected("storage"), store |-> w,
              look |-> rc.look]
        ELSE IF rc.decision # <<>>
        THEN [kind |-> "resolved",
              result |-> Resolved([rc.decision[1] EXCEPT !.source = "ai-cached"]),
              store |-> [w EXCEPT !.cache = rc.cache], look |-> rc.look]
        ELSE [kind |-> "fetch", result |-> NoResult,
              store |-> [hist |-> got.hist, cache |-> rc.cache, uuids |-> got.uuids],
              look |-> rc.look]

\* aiDecide as if the cache held the decision object itself: marking the
\* decision served as 'ai-cached' marks the entry
aiStartMarkingEntry(st, w, t, context, options) ==
    LET config == normalizeConfig(options.aiConfig)
        cacheKey == buildCacheKey(context, config.mode)
        rc == IF config.cacheDecisions
              THEN readCache(st, w.cache, cacheKey, config.cacheDuration, t)
              ELSE [decision |-> <<>>, cache |-> w.cache, look |-> "off"]
        got == IF config.historyEnabled
               THEN getHistory(st, w.hist, w.uuids, t)
               ELSE [ret |-> <<>>, hist |-> w.hist, uuids |-> w.uuids]
    IN  IF ~config.valid
        THEN [kind |-> "rejected", result |-> Rejected("config"), store |-> w, look |-> ""]
        ELSE IF rc.decision # <<>>
        THEN [kind |-> "resolved",
              result |-> Resolved([rc.decision[1] EXCEPT !.source = "ai-cached"]),
              store |-> [w EXCEPT !.cache =
                            [rc.cache EXCEPT ![cacheKey].decision.source = "ai-cached"]],
              look |-> rc.look]
        ELSE [kind |-> "fetch", result |-> NoResult,
              store |-> [hist |-> got.hist, cache |-> rc.cache, uuids |-> got.uuids],
              look |-> rc.look]

aiStart(st, w, t, context, options) ==
    The({The({
        LET got == IF config.historyEnabled
                   THEN getHistory(st, w.hist, w.uuids, t)
                   ELSE [ret |-> <<>>, hist |-> w.hist, uuids |-> w.uuids]
        IN  IF ~config.valid
            THEN [kind |-> "rejected", result |-> Rejected("config"), store |-> w, look |-> ""]
            ELSE IF rc.decision # <<>>
            THEN [kind |-> "resolved",
                  result |-> Resolved([rc.decision[1] EXCEPT !.source = "ai-cached"]),
                  store |-> [w EXCEPT !.cache = rc.cache], look |-> rc.look]
            ELSE [kind |-> "fetch", result |-> NoResult,
                  store |-> [hist |-> got.hist, cache |-> rc.cache, uuids |-> got.uuids],
                  look |-> rc.look] :
        rc \in {IF config.cacheDecisions
                THEN readCache(st, w.cache, buildCacheKey(context, config.mode),
                               config.cacheDuration, t)
                ELSE [decision |-> <<>>, cache |-> w.cache, look |-> "off"]}}) :
      config \in {normalizeConfig(options.aiConfig)}})

\* callWithRetry retrying once more than maxRetries allows
callWithRetryOnceMore(attempt, config) == attempt <= config.maxRetries

\* the catch handler of callWithRetry: whether the failed attempt is retried
callWithRetry(attempt, config) == attempt < config.maxRetries

\* a backoff that grows by 500 ms with every attempt
backoffLinear(attempt) == 500 * attempt

\* the delay of the timer that starts the next attempt, in ms
backoff(attempt) == 500 * Pow(2, attempt)

\* a timeout that gives the attempt up and leaves the request on the wire
abortNever(inflight) == inflight

\* controller.abort(): the request of the attempt is cancelled
abort(inflight) == inflight - 1

\* the error "timeout" is the abort by the timer of callOpenAI, which fires
\* config.timeout ms after the request was sent: there is a timer only where
\* AbortController exists, and the then handler of fetch clears it once the
\* status line and the headers have arrived
canFail(able, phase, error) == error = "timeout" => able /\ phase = "waiting"

\* the calls on the wire once an attempt has failed
afterFailure(inflight, error) == IF error = "timeout" THEN abort(inflight) ELSE inflight - 1

\* a then handler that holds a lock on the cache key: when another request
\* has written the entry in the meantime, it neither writes it again nor
\* records a visit
aiFinishKeepingFirst(st, w, t, context, options, aiResponse) ==
    LET config == normalizeConfig(options.aiConfig)
        templates == options.templates
        decision == [template |-> Lookup(templates, aiResponse.selectedVariant),
                     intent |-> aiResponse.selectedVariant, source |-> "ai",
                     context |-> context,
                     aiResponse |-> <<[mode |-> config.mode, cached |-> FALSE]>>]
        cacheKey == buildCacheKey(context, config.mode)
    IN  IF ~validateSelectResponse(aiResponse, templates)
        THEN [result |-> Rejected("invalid-selection"), store |-> w]
        ELSE IF cacheKey \in DOMAIN w.cache
        THEN [result |-> Resolved(decision), store |-> w]
        ELSE The({[result |-> Resolved(decision),
                   store |-> [hist |-> r.hist,
                              cache |-> writeCache(st, w.cache, cacheKey, decision, t),
                              uuids |-> r.uuids]] :
                r \in {recordVisit(st, w.hist, w.uuids, t,
                              [context |-> Some(context), intent |-> decision.intent,
                               selectedVariant |-> decision.intent, source |-> "ai",
                               aiDecision |-> TRUE],
                              [maxHistorySize |-> Some(config.maxHistorySize),
                               decayRate |-> Undefined, maxWeighted |-> Undefined])}})

\* the then handler of aiDecide, run on the reply of the model
aiFinish(st, w, t, context, options, aiResponse) ==
    LET config == normalizeConfig(options.aiConfig)
        templates == options.templates
        decision ==
            IF config.mode = "select"
            THEN [template |-> Lookup(templates, aiResponse.selectedVariant),
                  intent |-> aiResponse.selectedVariant, source |-> "ai",
                  context |-> context,
                  aiResponse |-> <<[mode |-> "select", cached |-> FALSE]>>]
            ELSE [template |-> "generated",
                  generatedTemplate |->
                    [headline |-> aiResponse.headline,
                     subheadline |-> aiResponse.subheadline,
                     ctaLabel |-> aiResponse.ctaLabel,
                     ctaLink |-> IF Lookup(templates, "default") # ""
                                 THEN "default.ctaLink" ELSE "/shop",
                     image |-> IF Lookup(templates, "default") # ""
                               THEN "default.image" ELSE ""],
                  intent |-> "ai-generated", source |-> "ai",
                  context |-> context,
                  aiResponse |-> <<[mode |-> "generate", cached |-> FALSE]>>]
        cached == IF config.cacheDecisions
                  THEN writeCache(st, w.cache, buildCacheKey(context, config.mode), decision, t)
                  ELSE w.cache
    IN  IF config.mode = "select" /\ ~validateSelectResponse(aiResponse, templates)
        THEN [result |-> Rejected("invalid-selection"), store |-> w]
        ELSE IF config.mode = "generate" /\ ~validateGenerateResponse(aiResponse)
        THEN [result |-> Rejected("invalid-generation"), store |-> w]
        ELSE The({[result |-> Resolved(decision),
                   store |-> [hist |-> r.hist, cache |-> cached, uuids |-> r.uuids]] :
                r \in {IF config.historyEnabled
                       THEN recordVisit(st, w.hist, w.uuids, t,
                              [context |-> Some(context), intent |-> decision.intent,
                               selectedVariant |-> decision.intent, source |-> "ai",
                               aiDecision |-> TRUE],
                              [maxHistorySize |-> Some(config.maxHistorySize),
                               decayRate |-> Undefined, maxWeighted |-> Undefined])
                       ELSE [ret |-> <<>>, hist |-> w.hist, uuids |-> w.uuids]}})

----------------------------------------------------------------------------
(* DecisionEngine.decide and personalize around the AI engine              *)

\* the decision is passed through; the DOM is not modelled
applyDecisionToDOM(decision) == decision

\* whether the entry point hands the request to aiDecide
usesAI(entry, options) ==
    IF entry = "aiDecide" THEN TRUE
    ELSE IF options.enableAI THEN isReady(options.aiConfig) ELSE FALSE

\* decideCatch with the test of fallbackToStandard turned around
decideCatchInverted(st, w, t, context, options, error, random) ==
    IF options.aiConfig.fallbackToStandard = "false"
    THEN The({[result |-> Resolved(s.decision), store |-> s.store, ran |-> 1] :
              s \in {standardDecide(st, w, t, context, options, random)}})
    ELSE [result |-> Rejected(error), store |-> w, ran |-> 0]

\* the catch handler of decide, on the error aiDecide rejected with
decideCatch(st, w, t, context, options, error, random) ==
    IF options.aiConfig.fallbackToStandard # "false"
    THEN The({[result |-> Resolved(s.decision), store |-> s.store, ran |-> 1] :
              s \in {standardDecide(st, w, t, context, options, random)}})
    ELSE [result |-> Rejected(error), store |-> w, ran |-> 0]

\* the then and catch handlers of personalize, on what decide settled with
personalizeSettle(st, t, context, options, settled, random) ==
    IF settled.result.kind = "decision"
    THEN [settled EXCEPT !.result = Resolved(applyDecisionToDOM(@.decision))]
    ELSE The({[result |-> Resolved(applyDecisionToDOM(s.decision)),
               store |-> s.store, ran |-> settled.ran + 1] :
              s \in {standardDecide(st, settled.store, t, context, options, random)}})

\* what the caller receives once aiDecide has settled with ai, leaving store w
settle(entry, st, w, t, context, options, ai, random) ==
    LET direct == [result |-> ai, store |-> w, ran |-> 0]
    IN  IF entry = "aiDecide" THEN direct
        ELSE The({IF entry = "decide" THEN engine
                  ELSE personalizeSettle(st, t, context, options, engine, random) :
                engine \in {IF ai.kind = "rejected"
                            THEN decideCatch(st, w, t, context, options, ai.error, random)
                            ELSE direct}})

\* personalize without templates
NoTemplatesDecision ==
    [template |-> "", intent |-> "default", source |-> "error",
     context |-> <<>>, aiResponse |-> <<>>]

\* an entry point that lets an accepting custom rule decide before it asks
\* the AI engine
beginRulesFirst(entry, st, w, t, context, options, random) ==
    IF entry = "personalize" /\ options.templates = <<>>
    THEN [pc |-> "done", result |-> Resolved(NoTemplatesDecision), store |-> w,
          ran |-> 0, look |-> "", aiErr |-> ""]
    ELSE IF \/ ~usesAI(entry, options)
            \/ /\ entry # "aiDecide"
               /\ \E i \in DOMAIN options.rules : context \in options.rules[i].match
    THEN The({[pc |-> "done", result |-> Resolved(applyDecisionToDOM(std.decision)),
               store |-> std.store, ran |-> 1, look |-> "", aiErr |-> ""] :
              std \in {standardDecide(st, w, t, context, options, random)}})
    ELSE The({
        IF ai.kind = "fetch"
        THEN [pc |-> "fetching", result |-> NoResult, store |-> ai.store,
              ran |-> 0, look |-> ai.look, aiErr |-> ""]
        ELSE The({[pc |-> "done", result |-> out.result, store |-> out.store,
                   ran |-> out.ran, look |-> ai.look,
                   aiErr |-> IF ai.kind = "rejected" THEN ai.result.error ELSE ""] :
                  out \in {settle(entry, st, ai.store, t, context, options,
                                  ai.result, random)}}) :
        ai \in {aiStart(st, w, t, context, options)}})

\* the synchronous part of a request: what the entry point does before it
\* returns.  pc is "done" when the caller has its answer, "fetching" when a
\* request to the model is under way
begin(entry, st, w, t, context, options, random) ==
    IF entry = "personalize" /\ options.templates = <<>>
    THEN [pc |-> "done", result |-> Resolved(NoTemplatesDecision), store |-> w,
          ran |-> 0, look |-> "", aiErr |-> ""]
    ELSE IF ~usesAI(entry, options)
    THEN The({[pc |-> "done", result |-> Resolved(applyDecisionToDOM(std.decision)),
               store |-> std.store, ran |-> 1, look |-> "", aiErr |-> ""] :
              std \in {standardDecide(st, w, t, context, options, random)}})
    ELSE The({
        IF ai.kind = "fetch"
        THEN [pc |-> "fetching", result |-> NoResult, store |-> ai.store,
              ran |-> 0, look |-> ai.look, aiErr |-> ""]
        ELSE The({[pc |-> "done", result |-> out.result, store |-> out.store,
                   ran |-> out.ran, look |-> ai.look,
                   aiErr |-> IF ai.kind = "rejected" THEN ai.result.error ELSE ""] :
                  out \in {settle(entry, st, ai.store, t, context, options,
                                  ai.result, random)}}) :
        ai \in {aiStart(st, w, t, context, options)}})

----------------------------------------------------------------------------
(* The decision requests of the page                                       *)

Idle ==
    [pc |-> "idle", entry |-> "", context |-> <<>>, options |-> <<>>,
     attempt |-> 0, calls |-> 0, lastErr |-> "", aiErr |-> "", look |-> "",
     ran |-> 0, result |-> NoResult, fetch |-> <<>>, reply |-> <<>>,
     inflight |-> 0, phase |-> "", elapsed |-> 0, sentAt |-> 0, failedAt |-> 0]

Store == [hist |-> hist, cache |-> cache, uuids |-> uuids]

\* the keys getRandomFallbackIntent can draw
RandomKeys(templates) == IF templates = <<>> THEN {""} ELSE Keys(templates)

\* the page calls personalize(), engine.decide() or aiDecide()
Start(r, entry, context, options) ==
    /\ req[r].pc = "idle"
    /\ \E random \in RandomKeys(options.templates) :
        \E b \in {begin(entry, storage, Store, now, context, options, random)} :
            /\ req' = [req EXCEPT ![r] =
                    [pc |-> b.pc, entry |-> entry, context |-> context,
                     options |-> options, attempt |-> 0,
                     calls |-> IF b.pc = "fetching" THEN 1 ELSE 0,
                     lastErr |-> "", aiErr |-> b.aiErr, look |-> b.look,
                     ran |-> b.ran, result |-> b.result, reply |-> Undefined,
                     inflight |-> IF b.pc = "fetching" THEN 1 ELSE 0,
                     phase |-> IF b.pc = "fetching" THEN "waiting" ELSE "",
                     elapsed |-> 0, sentAt |-> 0, failedAt |-> 0,
                     fetch |-> IF b.pc = "fetching"
                               THEN Some(callOpenAI(normalizeConfig(options.aiConfig)))
                               ELSE Undefined]]
            /\ hist' = b.store.hist
            /\ cache' = b.store.cache
            /\ uuids' = b.store.uuids
    /\ started' = started + 1
    /\ UNCHANGED <<abortable, weights, lua, now, storage, seen, recorded>>

\* how callOpenAI fails: fetch rejects, the timeout aborts, the status is
\* no success, the body or the content is no JSON
Failures == {"network", "timeout", "http", "parse"}

NoContent == [selectedVariant |-> "", headline |-> "", subheadline |-> "", ctaLabel |-> ""]

Generated ==
    [NoContent EXCEPT !.headline = "Game On", !.subheadline = "Level up",
                      !.ctaLabel = "Shop now"]

\* the replies of the model: a key of the catalogs, an unknown key, a
\* property of Object.prototype, generated content, and generated content
\* that lacks one of its three fields
Replies ==
    {[NoContent EXCEPT !.selectedVariant = "gaming"],
     [NoContent EXCEPT !.selectedVariant = "nonexistent"],
     [NoContent EXCEPT !.selectedVariant = "constructor"],
     Generated,
     [Generated EXCEPT !.headline = ""],
     [Generated EXCEPT !.subheadline = ""],
     [Generated EXCEPT !.ctaLabel = ""]}

\* the request has its answer
Settle(r, out, aiErr, lastErr, reply, inflight) ==
    /\ req' = [req EXCEPT ![r].pc = "done", ![r].aiErr = aiErr,
                          ![r].lastErr = lastErr, ![r].reply = reply,
                          ![r].ran = out.ran, ![r].result = out.result,
                          ![r].inflight = inflight, ![r].phase = "",
                          ![r].elapsed = 0, ![r].sentAt = 0, ![r].failedAt = 0]
    /\ hist' = out.store.hist
    /\ cache' = out.store.cache
    /\ uuids' = out.store.uuids

\* an attempt fails and is retried after the backoff
FetchFailsRetried(r) ==
    /\ req[r].pc = "fetching"
    /\ callWithRetry(req[r].attempt, normalizeConfig(req[r].options.aiConfig))
    /\ \E error \in Failures :
        /\ canFail(abortable, req[r].phase, error)
        /\ req' = [req EXCEPT ![r].pc = "backoff", ![r].lastErr = error,
                              ![r].inflight = afterFailure(@, error),
                              ![r].phase = "", ![r].failedAt = req[r].elapsed]
    /\ UNCHANGED <<abortable, weights, lua, now, storage, hist, cache, uuids, seen, recorded,
                   started>>

\* the last attempt fails: callWithRetry rejects with its error
FetchFailsLast(r) ==
    /\ req[r].pc = "fetching"
    /\ ~callWithRetry(req[r].attempt, normalizeConfig(req[r].options.aiConfig))
    /\ \E error \in Failures, random \in RandomKeys(req[r].options.templates) :
        /\ canFail(abortable, req[r].phase, error)
        /\ \E out \in {settle(req[r].entry, storage, Store, now, req[r].context,
                                req[r].options, Rejected(error), random)} :
            Settle(r, out, error, error, req[r].reply, afterFailure(req[r].inflight, error))
    /\ UNCHANGED <<abortable, weights, lua, now, storage, seen, recorded, started>>

\* the timer of the backoff fires, 500 * 2^attempt ms after the failure or
\* later if the time has already passed: the next attempt
Retry(r) ==
    /\ req[r].pc = "backoff"
    /\ \E fires \in {Max(req[r].elapsed, req[r].failedAt + backoff(req[r].attempt))} :
        req' = [req EXCEPT ![r].pc = "fetching", ![r].attempt = @ + 1,
                          ![r].calls = @ + 1, ![r].inflight = @ + 1,
                          ![r].phase = "waiting", ![r].elapsed = fires,
                          ![r].sentAt = fires,
                          ![r].fetch = Some(callOpenAI(normalizeConfig(req[r].options.aiConfig)))]
    /\ UNCHANGED <<abortable, weights, lua, now, storage, hist, cache, uuids, seen, recorded,
                   started>>

\* the status line and the headers of the response arrive: the then handler
\* of fetch clears the timer and starts to read the body
HeadersArrive(r) ==
    /\ req[r].pc = "fetching"
    /\ req[r].phase = "waiting"
    /\ req' = [req EXCEPT ![r].phase = "body"]
    /\ UNCHANGED <<abortable, weights, lua, now, storage, hist, cache, uuids, seen, recorded,
                   started>>

\* the model replies with JSON content
FetchReplies(r) ==
    /\ req[r].pc = "fetching"
    /\ \E aiResponse \in Replies, random \in RandomKeys(req[r].options.templates) :
        \E fin \in {aiFinish(storage, Store, now, req[r].context, req[r].options, aiResponse)} :
        \E out \in {settle(req[r].entry, storage, fin.store, now, req[r].context,
                          req[r].options, fin.result, random)} :
            Settle(r, out, IF fin.result.kind = "rejected" THEN fin.result.error ELSE "",
                   req[r].lastErr, Some(aiResponse), req[r].inflight - 1)
    /\ UNCHANGED <<abortable, weights, lua, now, storage, seen, recorded, started>>

\* the caller is done with the answer
Return(r) ==
    /\ req[r].pc = "done"
    /\ req' = [req EXCEPT ![r] = Idle]
    /\ UNCHANGED <<abortable, weights, lua, now, storage, hist, cache, uuids, seen, recorded, started>>

\* the page calls clearCache()
ClearCache ==
    /\ \E cleared \in {clearCache(storage, hist, cache)} :
        /\ hist' = cleared.hist
        /\ cache' = cleared.cache
    /\ UNCHANGED <<abortable, weights, lua, now, storage, req, uuids, seen, recorded, started>>

----------------------------------------------------------------------------
(* The page making decision requests, one at a time                        *)

MaxRequests == 1        \* decision requests per run
MaxRetries == 1         \* largest maxRetries a page configures

Entries == {"personalize", "decide", "aiDecide"}

Contexts == {CtxCampaign, CtxDirect, CtxSearch}

AiConfig(creds, mode, maxRetries, fallback, caching, duration, history) ==
    [apiKey |-> IF creds \in {"key", "both"} THEN "sk-test" ELSE "",
     apiUrl |-> IF creds \in {"url", "both"} THEN "https://proxy.com/api" ELSE "",
     mode |-> mode, timeout |-> Undefined,
     maxRetries |-> maxRetries, fallbackToStandard |-> fallback,
     cacheDecisions |-> caching, cacheDuration |-> duration,
     historyEnabled |-> history, maxHistorySize |-> Undefined]

Options(templates, rules, randomFallback, enableAI, aiConfig) ==
    [templates |-> templates, rules |-> rules, randomFallback |-> randomFallback,
     enableAI |-> enableAI, aiConfig |-> aiConfig]

RetryOptions == {Undefined} \cup {Some(n) : n \in 0..MaxRetries}

\* requests that vary the configuration of the AI engine
AiRequests ==
    {[entry |-> e, context |-> c,
      options |-> Options(CatalogWithDefault, NoRules, "unset", TRUE,
                          AiConfig(k, m, n, f, "unset", Undefined, "unset"))] :
        e \in Entries, c \in {CtxDirect},
        k \in {"key", "url", "none"}, m \in {"select", "generate"},
        n \in RetryOptions, f \in {"unset", "true", "false"}}

\* requests configured with both an apiKey and an apiUrl
ProxyRequests ==
    {[entry |-> "aiDecide", context |-> CtxDirect,
      options |-> Options(CatalogWithDefault, NoRules, "unset", TRUE,
                          AiConfig("both", m, n, "unset", "unset", Undefined, "unset"))] :
        m \in {"select", "generate"}, n \in RetryOptions}

\* requests that vary the options of the page
PageRequests ==
    {[entry |-> e, context |-> c,
      options |-> Options(t, ru, rf, ai,
                          AiConfig("key", "select", Some(0), f, "unset", Undefined, "unset"))] :
        e \in {"personalize", "decide"}, c \in Contexts,
        t \in {CatalogWithDefault, CatalogNoDefault, <<>>},
        ru \in {NoRules, SearchRule}, rf \in {"unset", "false"},
        ai \in BOOLEAN, f \in {"unset", "false"}}

Requests == AiRequests \cup ProxyRequests \cup PageRequests

Init == InitEnv /\ req = <<Idle>> /\ lua = <<>> /\ weights = {} /\ abortable = TRUE

Next ==
    \/ \E r \in DOMAIN req, q \in Requests :
        started < MaxRequests /\ Start(r, q.entry, q.context, q.options)
    \/ \E r \in DOMAIN req : FetchFailsRetried(r)
    \/ \E r \in DOMAIN req : FetchFailsLast(r)
    \/ \E r \in DOMAIN req : Retry(r)
    \/ \E r \in DOMAIN req : FetchReplies(r)
    \/ \E r \in DOMAIN req : Return(r)
    \/ QuotaFill

Spec == Init /\ [][Next]_vars

----------------------------------------------------------------------------
(* The page making requests over the days, with the decision cache         *)

MaxCacheRequests == 2   \* decision requests per run with the cache

\* how many calculateWeight calls are kept
MaxWeights == 2

\* the largest maxRetries of the requests whose retries are timed
MaxBackoffs == 2

\* how often the clock advances by ElapseStep ms between two events
MaxElapses == 1

ElapseStep == 250

\* requests that vary the use of the cache: on or off, the default
\* cacheDuration of an hour or one of a day, two contexts and both modes
\* for different cache keys; no retry, and the AI engine keeps no history
CacheRequests ==
    {[entry |-> e, context |-> c,
      options |-> Options(CatalogWithDefault, NoRules, "unset", TRUE,
                          AiConfig("key", m, Some(0), "false", ca, d, "false"))] :
        e \in Entries, c \in {CtxCampaign, CtxDirect}, m \in {"select", "generate"},
        ca \in {"unset", "false"}, d \in {Undefined, Some(MS_PER_DAY)}}

NextCache ==
    \/ \E r \in DOMAIN req, q \in CacheRequests :
        started < MaxCacheRequests /\ Start(r, q.entry, q.context, q.options)
    \/ \E r \in DOMAIN req : FetchFailsLast(r)
    \/ \E r \in DOMAIN req : FetchReplies(r)
    \/ \E r \in DOMAIN req : Return(r)
    \/ ClearCache
    \/ Tick
    \/ QuotaFill

SpecCache == Init /\ [][NextCache]_vars

----------------------------------------------------------------------------
(* The page making AI requests while the store fails                       *)

FailingRequests ==
    {[entry |-> e, context |-> CtxDirect,
      options |-> Options(CatalogWithDefault, NoRules, "unset", TRUE,
                          AiConfig("key", m, Some(0), f, "unset", Undefined, "unset"))] :
        e \in Entries, m \in {"select", "generate"}, f \in {"unset", "false"}}

NextFailing ==
    \/ \E r \in DOMAIN req, q \in FailingRequests :
        started < MaxCacheRequests /\ Start(r, q.entry, q.context, q.options)
    \/ \E r \in DOMAIN req : FetchFailsLast(r)
    \/ \E r \in DOMAIN req : FetchReplies(r)
    \/ \E r \in DOMAIN req : Return(r)
    \/ QuotaFill

SpecFailing == Init /\ [][NextFailing]_vars

----------------------------------------------------------------------------
(* The page asking the deterministic engine: AI is not enabled             *)

EngineContexts == {CtxCampaign, CtxDirect, CtxSearch, CtxTagged, CtxExternal}

EngineRequests ==
    {[entry |-> e, context |-> c,
      options |-> Options(t, ru, rf, FALSE,
                          AiConfig("none", "select", Undefined, "unset", "unset",
                                   Undefined, "unset"))] :
        e \in {"personalize", "decide"}, c \in EngineContexts,
        t \in {CatalogWithDefault, CatalogNoDefault, CatalogNumbered, <<>>},
        ru \in {NoRules, SearchRule, TwoRules, NumberedRules},
        rf \in {"unset", "false"}}

NextEngine ==
    \/ \E r \in DOMAIN req, q \in EngineRequests :
        started < MaxRequests /\ Start(r, q.entry, q.context, q.options)
    \/ \E r \in DOMAIN req : Return(r)
    \/ QuotaFill

SpecEngine == Init /\ [][NextEngine]_vars

----------------------------------------------------------------------------
(* Claims about the history store                                          *)

PersistedVisits == IF hist = <<>> THEN <<>> ELSE hist[1].visits

LastN(s, n) == SubSeq(s, Len(s) - n + 1, Len(s))

\* C8: after more than N recordVisit calls, all made with maxHistorySize = N,
\* the persisted history holds exactly the N visits recorded last, in the
\* order in which they were recorded.
C8_TrimKeepsLastN ==
    (recorded.state = "same" /\ IsDefined(recorded.size)
        /\ Len(recorded.visits) > recorded.size[1])
    => PersistedVisits = LastN(recorded.visits, recorded.size[1])

\* C9: the getHistory calls made with no clearHistory between them all return
\* the same userId, whether or not a recordVisit was made between them.
C9_SameUserId == Cardinality(seen) <= 1

\* C10: the persisted preferences have no key 'unknown' and no key 'default',
\* and each of their keys is the intent of a visit of the persisted history.
C10_PreferenceKeys ==
    hist # <<>> =>
        LET prefs == hist[1].preferences
            visits == hist[1].visits
        IN  /\ "unknown" \notin DOMAIN prefs
            /\ "default" \notin DOMAIN prefs
            /\ \A k \in DOMAIN prefs : \E i \in 1..Len(visits) : visits[i].intent = k

\* a history holding a visit with a sentinel intent beside one with a scored intent
C10_Witness ==
    /\ hist # <<>>
    /\ \E i \in 1..Len(hist[1].visits) : hist[1].visits[i].intent \in {"unknown", "default"}
    /\ DOMAIN hist[1].preferences # {}

----------------------------------------------------------------------------
(* Claims about the decision requests                                      *)

Config(r) == normalizeConfig(req[r].options.aiConfig)

Done(r) == req[r].pc = "done"

\* the request was made through DecisionEngine.decide or personalize
ViaEngine(r) == req[r].entry \in {"personalize", "decide"}

DeterministicSources == {"utm", "referrer", "custom-rule", "random-ab", "default"}

\* the decisions the deterministic engine computes for a context, one for
\* each key the random fallback can draw
StandardDecisions(context, options) ==
    {[template |-> getTemplate(c.intent, options.templates), intent |-> c.intent,
      source |-> c.source, context |-> context, aiResponse |-> <<>>] :
        c \in {standardChoice(context, options, random) :
                 random \in RandomKeys(options.templates)}}

\* C1: a request through the engine with AI enabled, a non-empty catalog and
\* fallbackToStandard true or unset, whose AI path failed (the gateway after
\* its retries, or the validation of the reply), is not rejected: it returns
\* the decision of the deterministic engine for the same context, with a
\* source among utm, referrer, custom-rule, random-ab and default.
C1_FallbackToStandard ==
    \A r \in DOMAIN req :
        (/\ Done(r) /\ ViaEngine(r)
         /\ req[r].options.enableAI
         /\ req[r].options.templates # <<>>
         /\ req[r].options.aiConfig.fallbackToStandard # "false"
         /\ req[r].aiErr # "")
        => /\ req[r].result.kind = "decision"
           /\ req[r].result.decision \in StandardDecisions(req[r].context, req[r].options)
           /\ req[r].result.decision.source \in DeterministicSources
           /\ req[r].ran = 1

\* a request whose two attempts timed out and that got a deterministic decision
C1_Witness ==
    \E r \in DOMAIN req :
        /\ Done(r) /\ req[r].entry = "decide" /\ req[r].options.enableAI
        /\ req[r].options.aiConfig.fallbackToStandard = "unset"
        /\ req[r].aiErr = "timeout" /\ req[r].calls = 2
        /\ req[r].result.kind = "decision"

\* C2: with fallbackToStandard false, a request through personalize() or
\* engine.decide whose AI path failed ends in a rejection carrying the AI
\* failure, and the deterministic engine is not run for it.
C2_NoFallbackRejects ==
    \A r \in DOMAIN req :
        (/\ Done(r) /\ ViaEngine(r)
         /\ req[r].options.enableAI
         /\ req[r].options.templates # <<>>
         /\ req[r].options.aiConfig.fallbackToStandard = "false"
         /\ req[r].aiErr # "")
        => /\ req[r].result = Rejected(req[r].aiErr)
           /\ req[r].ran = 0

\* C5: with maxRetries = n, the gateway makes at most n + 1 attempts, none
\* after a reply, a retry is pending only while fewer than n + 1 were made,
\* and when every attempt failed it made exactly n + 1 and rejects with the
\* error of the last one.
C5_RetryBudget ==
    \A r \in DOMAIN req :
        req[r].calls > 0 =>
            /\ req[r].calls = req[r].attempt + 1
            /\ req[r].calls <= Config(r).maxRetries + 1
            /\ req[r].pc = "backoff" => req[r].calls <= Config(r).maxRetries
            /\ (Done(r) /\ req[r].aiErr \in Failures) =>
                   /\ req[r].calls = Config(r).maxRetries + 1
                   /\ req[r].aiErr = req[r].lastErr
                   /\ req[r].entry = "aiDecide" =>
                          req[r].result = Rejected(req[r].lastErr)

\* aiDecide rejected with the error of the second of two attempts, the first
\* having failed otherwise
C5_Witness ==
    \E r \in DOMAIN req :
        /\ Done(r) /\ req[r].entry = "aiDecide"
        /\ req[r].options.aiConfig.maxRetries = Some(1)
        /\ req[r].calls = 2
        /\ req[r].result = Rejected("http")

KnownKeys == Keys(CatalogWithDefault) \cup Keys(CatalogNoDefault)

\* C6: in select mode a decision with source 'ai' is produced, cached or
\* recorded only for a selectedVariant that is a key of the catalog.
C6_SelectedIsCatalogKey ==
    /\ \A r \in DOMAIN req :
        (/\ Done(r) /\ req[r].result.kind = "decision"
         /\ req[r].result.decision.source = "ai"
         /\ Config(r).mode = "select")
        => req[r].result.decision.intent \in Keys(req[r].options.templates)
    /\ \A k \in DOMAIN cache :
        cache[k].decision.aiResponse[1].mode = "select"
            => cache[k].decision.intent \in KnownKeys
    /\ \A i \in 1..Len(PersistedVisits) :
        (PersistedVisits[i].aiDecision /\ PersistedVisits[i].intent # "ai-generated")
        => PersistedVisits[i].intent \in KnownKeys

\* C7: a request with AI enabled and neither a usable apiKey nor a usable
\* apiUrl is settled at once, with no request to the model and no retry:
\* aiDecide rejects with the configuration error; decide and personalize
\* return the decision of the deterministic engine instead, and raise no error.
C7_NotReady ==
    \A r \in DOMAIN req :
        (/\ req[r].pc # "idle"
         /\ ~Config(r).valid
         /\ (IF req[r].entry = "aiDecide" THEN TRUE ELSE req[r].options.enableAI))
        => /\ Done(r) /\ req[r].calls = 0 /\ req[r].attempt = 0
           /\ IF req[r].entry = "aiDecide"
              THEN req[r].result = Rejected("config") /\ req[r].ran = 0
              ELSE /\ req[r].result.kind = "decision"
                   /\ req[r].aiErr = ""
                   /\ req[r].options.templates # <<>> =>
                        /\ req[r].ran = 1
                        /\ req[r].result.decision \in
                               StandardDecisions(req[r].context, req[r].options)

\* decide, with AI enabled and no credentials, returned a decision
C7_Witness ==
    \E r \in DOMAIN req :
        /\ Done(r) /\ req[r].entry = "decide" /\ req[r].options.enableAI
        /\ ~Config(r).valid
        /\ req[r].result.kind = "decision"
        /\ req[r].result.decision.source \in DeterministicSources

\* C7 as stated: the caller of such a request receives a rejection
C7_Rejected ==
    \A r \in DOMAIN req :
        (/\ req[r].pc # "idle"
         /\ ~Config(r).valid
         /\ req[r].options.templates # <<>>
         /\ (IF req[r].entry = "aiDecide" THEN TRUE ELSE req[r].options.enableAI))
        => /\ Done(r) /\ req[r].calls = 0
           /\ req[r].result.kind = "rejected"

----------------------------------------------------------------------------
(* Claims about the decision cache                                         *)

\* request q is handed to aiDecide with a usable configuration and caching on
ReadsCache(q) ==
    /\ usesAI(q.entry, q.options)
    /\ normalizeConfig(q.options.aiConfig).valid
    /\ normalizeConfig(q.options.aiConfig).cacheDecisions
    /\ q.entry = "personalize" => q.options.templates # <<>>

KeyOf(q) == buildCacheKey(q.context, normalizeConfig(q.options.aiConfig).mode)

\* C3: a request that finds an entry under its cache key, written no longer
\* than its cacheDuration ago, returns the stored decision with the source
\* 'ai-cached' and all other fields as stored, sends no request to the model
\* and leaves the cache as it is.
C3_CacheHit ==
    [][\A r \in DOMAIN req :
        (/\ req[r].pc = "idle" /\ req'[r].pc # "idle"
         /\ ReadsCache(req'[r])
         /\ KeyOf(req'[r]) \in DOMAIN cache
         /\ now - cache[KeyOf(req'[r])].timestamp
                <= normalizeConfig(req'[r].options.aiConfig).cacheDuration)
        => /\ req'[r].pc = "done"
           /\ req'[r].calls = 0
           /\ req'[r].result =
                Resolved([cache[KeyOf(req'[r])].decision EXCEPT !.source = "ai-cached"])
           /\ cache' = cache]_vars

\* a request served on the day after the entry was written
C3_Witness ==
    \E r \in DOMAIN req :
        /\ Done(r) /\ req[r].look = "hit" /\ req[r].calls = 0
        /\ req[r].result.kind = "decision"
        /\ req[r].result.decision.source = "ai-cached"
        /\ KeyOf(req[r]) \in DOMAIN cache
        /\ cache[KeyOf(req[r])].timestamp < now

\* C4: a request that finds an entry under its cache key older than its
\* cacheDuration is not served from it: the entry is removed and the request
\* goes on to the model.
C4_ExpiredNotServed ==
    [][\A r \in DOMAIN req :
        (/\ req[r].pc = "idle" /\ req'[r].pc # "idle"
         /\ ReadsCache(req'[r])
         /\ KeyOf(req'[r]) \in DOMAIN cache
         /\ now - cache[KeyOf(req'[r])].timestamp
                > normalizeConfig(req'[r].options.aiConfig).cacheDuration)
        => /\ KeyOf(req'[r]) \notin DOMAIN cache'
           /\ req'[r].pc = "fetching"
           /\ req'[r].calls = 1
           /\ req'[r].result = NoResult]_vars

\* a request on its way to the model after it found an expired entry
C4_Witness ==
    \E r \in DOMAIN req :
        /\ req[r].pc = "fetching" /\ req[r].look = "expired" /\ req[r].calls = 1
        /\ KeyOf(req[r]) \notin DOMAIN cache

----------------------------------------------------------------------------
(* Claims about the deterministic engine                                   *)

\* request r has the decision of standardDecide
EngineDecided(r) ==
    Done(r) /\ req[r].ran > 0 /\ req[r].result.kind = "decision"

\* the positions, in the declaration, of the rules that accept the context
Accepting(r) ==
    {i \in 1..Len(req[r].options.rules) : req[r].context \in req[r].options.rules[i].match}

Least(S) == CHOOSE i \in S : \A j \in S : i <= j

\* the intent a rule stands for: its intent, or its name
RuleIntent(rule) == IF rule.intent # "" THEN rule.intent ELSE rule.name

\* the accepting rule a loop over the own properties meets first: the one
\* whose name is the least array index, or if no accepting rule is named by
\* an array index, the one declared first
FirstVisited(r) ==
    LET rules == req[r].options.rules
        numbered == {i \in Accepting(r) : ArrayIndex(rules[i].name) >= 0}
    IN  IF numbered # {}
        THEN CHOOSE i \in numbered :
                \A j \in numbered : ArrayIndex(rules[i].name) <= ArrayIndex(rules[j].name)
        ELSE Least(Accepting(r))

\* C11 as stated: when a rule accepts the context, the decision of the
\* deterministic engine has the source 'custom-rule' and the intent of the
\* first accepting rule in the order of the declaration
C11_FirstDeclaredRule ==
    \A r \in DOMAIN req :
        (EngineDecided(r) /\ Accepting(r) # {})
        => /\ req[r].result.decision.source = "custom-rule"
           /\ req[r].result.decision.intent =
                RuleIntent(req[r].options.rules[Least(Accepting(r))])

\* C11 amended: with a catalog that is not empty, when a rule accepts the
\* context the source is 'custom-rule' and the intent is that of the first
\* accepting rule in the order a loop over the properties visits the rules
\* (names that are array indices first, ascending, then the other names as
\* declared); no random choice replaces it
C11_FirstVisitedRule ==
    \A r \in DOMAIN req :
        (EngineDecided(r) /\ req[r].options.templates # <<>> /\ Accepting(r) # {})
        => /\ req[r].result.decision.source = "custom-rule"
           /\ req[r].result.decision.intent =
                RuleIntent(req[r].options.rules[FirstVisited(r)])

\* two rules accept the context and the decision is the first one's, which
\* names no intent
C11_Witness ==
    \E r \in DOMAIN req :
        /\ EngineDecided(r) /\ req[r].options.templates # <<>>
        /\ Cardinality(Accepting(r)) = 2
        /\ req[r].options.rules[FirstVisited(r)].intent = ""
        /\ req[r].result.decision.source = "custom-rule"

\* the context carries no UTM and its referrer is direct
DirectVisit(context) ==
    ~context.hasUTM /\ context.referrer # <<>> /\ context.referrer[1].category = "direct"

\* C12 as stated: when no rule accepts the context, the source is 'random-ab'
\* exactly if the context carries no UTM, its referrer is direct and the
\* random fallback is enabled, and the intent is then a key of the catalog
C12_RandomChoice ==
    \A r \in DOMAIN req :
        (EngineDecided(r) /\ Accepting(r) = {})
        => /\ (req[r].result.decision.source = "random-ab")
                <=> (DirectVisit(req[r].context)
                     /\ req[r].options.randomFallback # "false")
           /\ (req[r].result.decision.source = "random-ab")
                => req[r].result.decision.intent \in Keys(req[r].options.templates)

\* C12 amended: the same for a catalog that is not empty, the primary intent
\* of such a context being 'default'
C12_RandomChoiceOfCatalog ==
    \A r \in DOMAIN req :
        (EngineDecided(r) /\ req[r].options.templates # <<>> /\ Accepting(r) = {})
        => /\ (req[r].result.decision.source = "random-ab")
                <=> (DirectVisit(req[r].context)
                     /\ req[r].context.primaryIntent = "default"
                     /\ req[r].options.randomFallback # "false")
           /\ (req[r].result.decision.source = "random-ab")
                => req[r].result.decision.intent \in Keys(req[r].options.templates)

\* a random choice was made, of a key other than 'default'
C12_Witness ==
    \E r \in DOMAIN req :
        /\ EngineDecided(r) /\ Accepting(r) = {}
        /\ req[r].options.rules # <<>>
        /\ req[r].result.decision.source = "random-ab"
        /\ req[r].result.decision.intent # "default"

\* the decision of request r took the context's own intent: no rule
\* accepted the context and nothing was drawn at random
PlainDecision(r) ==
    EngineDecided(r) /\ Accepting(r) = {} /\ req[r].result.decision.source # "random-ab"

\* the key Object.keys lists first: the least array index among the keys,
\* or if no key is an array index, the key declared first
FirstListed(templates) ==
    LET numbered == {k \in Keys(templates) : ArrayIndex(k) >= 0}
    IN  IF numbered # {}
        THEN CHOOSE k \in numbered : \A l \in numbered : ArrayIndex(k) <= ArrayIndex(l)
        ELSE templates[1]

\* C13 as stated: without an accepting rule and a random choice, the intent
\* is the primary intent, the source is utm, referrer or default, and the
\* template is the entry of the intent, else the 'default' entry, else the
\* entry declared first; it is not null when the catalog is not empty
C13_TemplateFirstDeclared ==
    \A r \in DOMAIN req :
        PlainDecision(r)
        => LET d == req[r].result.decision
               templates == req[r].options.templates
           IN  /\ d.intent = req[r].context.primaryIntent
               /\ d.source \in {"utm", "referrer", "default"}
               /\ d.template =
                    (IF d.intent \in Keys(templates) THEN d.intent
                     ELSE IF "default" \in Keys(templates) THEN "default"
                     ELSE IF templates # <<>> THEN templates[1] ELSE "")
               /\ templates # <<>> => d.template # ""

\* C13 amended: the same for a catalog that is not empty, the last resort
\* being the entry Object.keys lists first
C13_TemplateFirstListed ==
    \A r \in DOMAIN req :
        (PlainDecision(r) /\ req[r].options.templates # <<>>)
        => LET d == req[r].result.decision
               templates == req[r].options.templates
           IN  /\ d.intent = req[r].context.primaryIntent
               /\ d.source \in {"utm", "referrer", "default"}
               /\ d.template =
                    (IF d.intent \in Keys(templates) THEN d.intent
                     ELSE IF "default" \in Keys(templates) THEN "default"
                     ELSE FirstListed(templates))
               /\ d.template # ""

\* the intent is no key of the catalog, which has a 'default' entry
C13_Witness ==
    \E r \in DOMAIN req :
        /\ PlainDecision(r)
        /\ req[r].result.decision.intent \notin Keys(req[r].options.templates)
        /\ req[r].result.decision.template = "default"

----------------------------------------------------------------------------
(* Claims about the requests to the model                                  *)

\* C14: whenever an apiUrl is configured, with or without an apiKey, every
\* request to the model goes to that URL and carries no Authorization
\* header; with an apiKey and no apiUrl it goes to the provider's endpoint
\* with 'Authorization: Bearer <key>'
C14_ConnectionModes ==
    \A r \in DOMAIN req :
        req[r].fetch # <<>>
        => LET aiConfig == req[r].options.aiConfig
               sent == req[r].fetch[1]
           IN  IF aiConfig.apiUrl # ""
               THEN sent.url = aiConfig.apiUrl /\ sent.Authorization = Undefined
               ELSE /\ aiConfig.apiKey # ""
                    /\ sent.url = OPENAI_BASE_URL
                    /\ sent.Authorization =
                         Some([scheme |-> "Bearer", credentials |-> aiConfig.apiKey])

\* a request was sent again after a failure, with both an apiKey and an
\* apiUrl configured
C14_Witness ==
    \E r \in DOMAIN req :
        /\ req[r].fetch # <<>> /\ req[r].calls = 2
        /\ req[r].options.aiConfig.apiKey # ""
        /\ req[r].options.aiConfig.apiUrl # ""

----------------------------------------------------------------------------
(* Claims about the decisions, the cache and the visits of the requests    *)

\* request r ended with a decision
Decided(r) == Done(r) /\ req[r].result.kind = "decision"

\* C15: a decision carries the record of the model's response exactly if
\* its source is 'ai' or 'ai-cached'; the decisions of the deterministic
\* engine, fallback decisions included, carry none
C15_ResponseRecord ==
    \A r \in DOMAIN req :
        Decided(r)
        => (req[r].result.decision.aiResponse # Undefined
            <=> req[r].result.decision.source \in {"ai", "ai-cached"})

\* a decision served from the cache carries the record
C15_Witness ==
    \E r \in DOMAIN req :
        /\ Decided(r)
        /\ req[r].result.decision.source = "ai-cached"
        /\ req[r].result.decision.aiResponse # Undefined

\* the keys whose cache entry this step writes: new keys and rewritten ones
Written ==
    {k \in DOMAIN cache' : IF k \in DOMAIN cache THEN cache'[k] # cache[k] ELSE TRUE}

\* C16: a cache entry is written only by the step in which the model's
\* answer to a request passes validation and becomes its 'ai' decision, under
\* the key of that request and with the stored source 'ai'; a request that
\* fails, falls back or is served from the cache writes no entry
C16_WrittenByAiDecision ==
    [][\A k \in Written :
        \E r \in DOMAIN req :
            /\ req[r].pc = "fetching" /\ req'[r].pc = "done"
            /\ req'[r].result.kind = "decision"
            /\ req'[r].result.decision.source = "ai"
            /\ k = KeyOf(req[r])
            /\ cache'[k].decision = jsonCopy(req'[r].result.decision)
            /\ cache'[k].decision.source = "ai"]_vars

\* a request was served from the cache, whose entry still has the source 'ai'
C16_Witness ==
    \E r \in DOMAIN req :
        /\ Decided(r) /\ req[r].result.decision.source = "ai-cached"
        /\ KeyOf(req[r]) \in DOMAIN cache
        /\ cache[KeyOf(req[r])].decision.source = "ai"

\* in this step request r ends with a decision other than the 'error' one
Decides(r) ==
    /\ req[r].pc # "done" /\ req'[r].pc = "done"
    /\ req'[r].result.kind = "decision"
    /\ req'[r].result.decision.source # "error"

\* this step appends one visit of that intent and source to the history
AppendsVisit(intent, source) ==
    /\ Len(PersistedVisits') = Len(PersistedVisits) + 1
    /\ SubSeq(PersistedVisits', 1, Len(PersistedVisits)) = PersistedVisits
    /\ PersistedVisits'[Len(PersistedVisits')].intent = intent
    /\ PersistedVisits'[Len(PersistedVisits')].source = source

\* C17: a request that ends with a decision that is no error and is not
\* served from the cache appends exactly one visit to the history, with the
\* intent and the source of the decision; a request served from the cache
\* appends none
C17_OneVisitPerDecision ==
    [][\A r \in DOMAIN req :
        Decides(r)
        => IF req'[r].result.decision.source = "ai-cached"
           THEN PersistedVisits' = PersistedVisits
           ELSE AppendsVisit(req'[r].result.decision.intent,
                             req'[r].result.decision.source)]_vars

----------------------------------------------------------------------------
(* Claims about clearing the history and about a failing store             *)

\* the user ids known before a step: those callers have seen and the
\* persisted one
KnownUserIds == seen \cup (IF hist = <<>> THEN {} ELSE {hist[1].userId})

\* C18: after clearHistory the persisted history is gone: isReturningUser
\* is false, getLastVisit is null, and the next getHistory makes a history
\* with a fresh userId, no visits and no preferences, and persists it
C18_ClearedHistory ==
    [][ClearHistory
       => /\ hist' = <<>>
          /\ ~isReturningUser(storage', hist')
          /\ getLastVisit(storage', hist') = <<>>
          /\ LET next == getHistory(storage', hist', uuids', now')
             IN  /\ next.ret.userId \notin KnownUserIds
                 /\ next.ret.visits = <<>>
                 /\ next.ret.preferences = <<>>
                 /\ next.hist = <<next.ret>>]_vars

\* C19: with the store unavailable the history store keeps a record in
\* memory: the k-th recordVisit call returns a history of k visits (no call
\* asking for a smaller history), and all calls return the same userId
C19_InMemoryRecord ==
    (storage = "down" /\ recorded.state = "same" /\ recorded.size = Undefined)
    => /\ \A k \in 1..Len(recorded.lengths) : recorded.lengths[k] = k
       /\ Cardinality(recorded.userIds) <= 1

\* a working store with nothing in it
EmptyStore == [hist |-> <<>>, cache |-> <<>>, uuids |-> 0]

\* what a request can end with when the store works and is empty, over the
\* random draws, the failures of the last attempt and the replies of the model
EmptyStoreOutcomes(entry, context, options) ==
    LET draws == RandomKeys(options.templates)
        begun == {begin(entry, "ok", EmptyStore, now, context, options, random) :
                    random \in draws}
        fetching == {b \in begun : b.pc = "fetching"}
    IN  {b.result : b \in begun \ fetching}
        \cup {settle(entry, "ok", b.store, now, context, options,
                     Rejected(error), random).result :
                b \in fetching, error \in Failures, random \in draws}
        \cup {settle(entry, "ok", b.store, now, context, options,
                     aiFinish("ok", b.store, now, context, options, aiResponse).result,
                     random).result :
                b \in fetching, aiResponse \in Replies, random \in draws}

\* a storage operation of request r has failed, or would have
StorageFailed(r) ==
    IF storage = "down" THEN TRUE
    ELSE IF storage = "full" THEN req[r].look # "hit" ELSE FALSE

\* C20: a failure of the store never surfaces: a request with a catalog that
\* is not empty ends as it can end with an empty store, with a decision or
\* with an error of the AI path, whatever reads, writes and removals fail
C20_StorageFailureSwallowed ==
    \A r \in DOMAIN req :
        (Done(r) /\ req[r].options.templates # <<>> /\ StorageFailed(r))
        => req[r].result \in EmptyStoreOutcomes(req[r].entry, req[r].context,
                                                req[r].options)

\* the model's answer became the decision although the store is unavailable
C20_Witness ==
    \E r \in DOMAIN req :
        /\ Decided(r) /\ storage = "down"
        /\ req[r].options.templates # <<>>
        /\ req[r].result.decision.source = "ai"
        /\ req[r].look = "unreadable"

----------------------------------------------------------------------------
(* Claims about the replies of the model                                   *)

\* the reply request r received has its three generated fields
Complete(aiResponse) ==
    /\ aiResponse.headline # ""
    /\ aiResponse.subheadline # ""
    /\ aiResponse.ctaLabel # ""

\* C21: in generate mode a reply is accepted only if headline, subheadline
\* and ctaLabel are all non-empty strings: a reply that lacks one makes the
\* AI decision fail, and an accepted reply gives a decision of source 'ai'
\* whose template has these three values
C21_GenerateValidated ==
    \A r \in DOMAIN req :
        (Done(r) /\ req[r].reply # Undefined /\ Config(r).mode = "generate")
        => IF Complete(req[r].reply[1])
           THEN /\ req[r].aiErr = ""
                /\ req[r].result.kind = "decision"
                /\ req[r].result.decision.source = "ai"
                /\ req[r].result.decision.generatedTemplate.headline
                     = req[r].reply[1].headline
                /\ req[r].result.decision.generatedTemplate.subheadline
                     = req[r].reply[1].subheadline
                /\ req[r].result.decision.generatedTemplate.ctaLabel
                     = req[r].reply[1].ctaLabel
           ELSE /\ req[r].aiErr = "invalid-generation"
                /\ (req[r].result.kind = "decision"
                     => req[r].result.decision.source # "ai")

\* a reply with a headline but without a ctaLabel made the AI decision fail
C21_Witness ==
    \E r \in DOMAIN req :
        /\ Done(r) /\ req[r].reply # Undefined /\ Config(r).mode = "generate"
        /\ req[r].reply[1].headline # ""
        /\ req[r].reply[1].ctaLabel = ""
        /\ req[r].aiErr = "invalid-generation"

----------------------------------------------------------------------------
\* Claims about clearing the cache

\* a request of each context and mode that reads the cache
CachingRequests ==
    {q \in CacheRequests :
        /\ q.entry = "aiDecide"
        /\ q.options.aiConfig.cacheDecisions = "unset"
        /\ q.options.aiConfig.cacheDuration = Undefined}

\* C22: clearCache removes every cached decision, whatever their number, and
\* leaves the visit history as it is; after it a request of any context and
\* mode with a usable AI configuration finds no entry and calls the model
C22_ClearCacheRemovesAll ==
    [][(req' = req /\ ClearCache)
       => /\ cache' = <<>>
          /\ hist' = hist
          /\ \A q \in CachingRequests :
                \E next \in {aiStart(storage', [hist |-> hist', cache |-> cache',
                                                uuids |-> uuids'],
                                     now', q.context, q.options)} :
                    /\ next.kind = "fetch"
                    /\ next.look \in {"absent", "unreadable"}]_vars

\* the decision of the model that the last request stored is gone from a
\* working store, while the visit history is still there
C22_Witness ==
    /\ storage = "ok" /\ cache = <<>> /\ hist # <<>>
    /\ \E r \in DOMAIN req :
        /\ Decided(r) /\ req[r].result.decision.source = "ai"
        /\ ReadsCache(req[r])

----------------------------------------------------------------------------
\* Claims about what a visit keeps of its context

\* the user-agent strings and referrer URLs of the contexts of the requests
RawValues ==
    ({c.userAgent[1].raw : c \in {x \in Contexts : x.userAgent # <<>>}}
     \cup {c.referrer[1].url : c \in {x \in Contexts : x.referrer # <<>>}}) \ {""}

\* C23: a persisted visit keeps of the context the UTM map as it was given,
\* the referrer's source and category and a device label; neither the raw
\* user-agent string nor the referrer URL is among its values
C23_MinimalContext ==
    \A i \in DOMAIN PersistedVisits :
        LET kept == PersistedVisits[i].context
        IN  /\ DOMAIN kept = {"utm", "referrer", "device"}
            /\ kept.utm \in {c.utm : c \in Contexts}
            /\ kept.device \in {"mobile", "tablet", "desktop"}
            /\ kept.referrer # <<>>
                 => /\ DOMAIN kept.referrer[1] = {"source", "category"}
                    /\ kept.referrer[1].source \notin RawValues
                    /\ kept.referrer[1].category \notin RawValues
            /\ \A c \in Contexts :
                 kept = minimalContext(Some(c))
                 => /\ kept.referrer[1].source = c.referrer[1].source
                    /\ kept.referrer[1].category = c.referrer[1].category
                    /\ kept.device = deviceClass(c.userAgent[1])

\* the visit of a request that came with a referrer URL and a user-agent
\* string is persisted
C23_Witness ==
    \E i \in DOMAIN PersistedVisits :
        /\ CtxCampaign.referrer[1].url \in RawValues
        /\ CtxCampaign.userAgent[1].raw \in RawValues
        /\ PersistedVisits[i].context = minimalContext(Some(CtxCampaign))

----------------------------------------------------------------------------
(* The A/B assignment object: class Lua *)

\* the tests a page defines: buckets in the order of their declaration
Homepage ==
    [name |-> "new-homepage", active |-> "unset",
     buckets |-> <<[name |-> "control", default |-> TRUE, winner |-> FALSE],
                   [name |-> "variantB", default |-> FALSE, winner |-> FALSE]>>]

\* the same test once variantB has been declared the winner
HomepageWon ==
    [Homepage EXCEPT !.buckets[2] = [name |-> "variantB", default |-> FALSE, winner |-> TRUE]]

\* the same test switched off
HomepageOff == [Homepage EXCEPT !.active = "false"]

Pricing ==
    [name |-> "pricing", active |-> "unset",
     buckets |-> <<[name |-> "monthly", default |-> FALSE, winner |-> FALSE],
                   [name |-> "yearly", default |-> FALSE, winner |-> FALSE]>>]

\* the arguments of define() on the pages of the site
ProvidedTests == {<<Homepage>>, <<HomepageWon>>, <<HomepageOff>>, <<Homepage, Pricing>>}

TestNames == {"new-homepage", "pricing"}

BucketNames == {"control", "variantB", "monthly", "yearly"}

\* an assignments object without keys
NoAssignments == [t \in TestNames |-> ""]

\* Object.keys(test.buckets)
bucketKeys(buckets) == [i \in DOMAIN buckets |-> buckets[i].name]

\* test.buckets[bucket] is defined
hasBucket(test, bucket) == \E i \in DOMAIN test.buckets : test.buckets[i].name = bucket

\* the first name of a list of names, undefined for an empty list
firstOf(names) == IF names = <<>> THEN "" ELSE names[1]

\* the first bucket declared the winner
winnerOf(test) ==
    firstOf(bucketKeys(SelectSeq(test.buckets, LAMBDA x : x.winner)))

getDefaultBucket(buckets) ==
    OrString(firstOf(bucketKeys(SelectSeq(buckets, LAMBDA x : x.default \/ x.winner))),
             firstOf(bucketKeys(buckets)))

\* the buckets getRandomAssignment(test) can return: every bucket has the
\* weight 1, so chooseWeightedItem can draw each of them
getRandomAssignment(test) == {test.buckets[i].name : i \in DOMAIN test.buckets}

\* new Lua({store}) followed by define(tests)
construct(store, tests) ==
    [providedTests |-> tests,
     previousAssignments |-> IF store = <<>> THEN NoAssignments ELSE store[1],
     userAssignments |-> NoAssignments,
     persistedUserAssignments |-> NoAssignments,
     store |-> store]

\* store.set(storageKey, JSON.stringify(persistedUserAssignments))
persist(l) == [l EXCEPT !.store = Some(l.persistedUserAssignments)]

\* the body of the forEach of assignAll for the i-th test; random is what
\* getRandomAssignment returns for it
assignOne(l, i, random) ==
    LET test == l.providedTests[i]
        bucket == l.previousAssignments[test.name]
    IN  IF winnerOf(test) # ""
        THEN [l EXCEPT !.userAssignments[test.name] = winnerOf(test)]
        ELSE IF l.userAssignments[test.name] # "" THEN l
        ELSE IF bucket # "" /\ hasBucket(test, bucket)
        THEN [l EXCEPT !.persistedUserAssignments[test.name] = bucket,
                       !.userAssignments[test.name] = bucket,
                       !.providedTests[i].active = "true"]
        ELSE IF test.active = "false"
        THEN [l EXCEPT !.userAssignments[test.name] = getDefaultBucket(test.buckets)]
        ELSE [l EXCEPT !.persistedUserAssignments[test.name] = random,
                       !.userAssignments[test.name] = random]

RECURSIVE assignFrom(_, _, _)
assignFrom(l, i, randoms) ==
    IF i > Len(l.providedTests) THEN l
    ELSE assignFrom(assignOne(l, i, randoms[l.providedTests[i].name]), i + 1, randoms)

\* assignAll(); the page has no root element, so no class is applied
assignAll(l, randoms) == persist(assignFrom(l, 1, randoms))

\* the index of the first provided test of this name, 0 if there is none
testIndex(l, testName) ==
    IF \E i \in DOMAIN l.providedTests : l.providedTests[i].name = testName
    THEN CHOOSE i \in DOMAIN l.providedTests :
            /\ l.providedTests[i].name = testName
            /\ \A j \in 1..(i - 1) : l.providedTests[j].name # testName
    ELSE 0

\* assign(testName, bucketName): "" stands for an argument left out and
\* "null" for the value null
assign(l, testName, bucketName, randoms) ==
    IF testName = "" THEN assignAll(l, randoms)
    ELSE IF bucketName = "null" \/ testIndex(l, testName) = 0
    THEN persist([l EXCEPT !.userAssignments[testName] = "",
                           !.persistedUserAssignments[testName] = ""])
    ELSE LET assignment == OrString(bucketName, randoms[testName])
         IN  persist([l EXCEPT !.userAssignments[testName] = assignment,
                               !.persistedUserAssignments[testName] = assignment,
                               !.providedTests[testIndex(l, testName)].active = "true"])

\* what getRandomAssignment can return for each provided test
Randoms(l) ==
    {randoms \in [TestNames -> BucketNames] :
        \A t \in TestNames :
            IF testIndex(l, t) = 0 THEN randoms[t] = "control"
            ELSE randoms[t] \in getRandomAssignment(l.providedTests[testIndex(l, t)])}

\* a page is loaded: it constructs the object over the store and defines
\* its tests
LoadPage ==
    /\ \E tests \in ProvidedTests :
        lua' = Some(construct(IF lua = <<>> THEN <<>> ELSE lua[1].store, tests))
    /\ UNCHANGED <<abortable, weights, now, storage, hist, cache, req, uuids, seen, recorded, started>>

\* the page calls assign()
AssignAll ==
    /\ lua # <<>>
    /\ \E randoms \in Randoms(lua[1]) : lua' = Some(assign(lua[1], "", "", randoms))
    /\ UNCHANGED <<abortable, weights, now, storage, hist, cache, req, uuids, seen, recorded, started>>

\* the page calls assign(testName)
AssignTest ==
    /\ lua # <<>>
    /\ \E testName \in TestNames, randoms \in Randoms(lua[1]) :
        lua' = Some(assign(lua[1], testName, "", randoms))
    /\ UNCHANGED <<abortable, weights, now, storage, hist, cache, req, uuids, seen, recorded, started>>

\* the page calls assign(testName, bucketName), bucketName a bucket or null
AssignBucket ==
    /\ lua # <<>>
    /\ \E testName \in TestNames, bucketName \in BucketNames \cup {"null"},
          randoms \in Randoms(lua[1]) :
        /\ bucketName # "null" /\ testIndex(lua[1], testName) # 0
             => hasBucket(lua[1].providedTests[testIndex(lua[1], testName)], bucketName)
        /\ lua' = Some(assign(lua[1], testName, bucketName, randoms))
    /\ UNCHANGED <<abortable, weights, now, storage, hist, cache, req, uuids, seen, recorded, started>>

InitLua == InitEnv /\ req = <<>> /\ lua = <<>> /\ weights = {} /\ abortable = TRUE

NextLua ==
    \/ LoadPage
    \/ AssignAll
    \/ AssignTest
    \/ AssignBucket

SpecLua == InitLua /\ [][NextLua]_vars

----------------------------------------------------------------------------
\* Claims about the A/B assignment object

\* C24: a call of assign() or assign(testName), without a bucketName, leaves
\* every bucket the user already has as it is
C24_NeverRebucketed ==
    [][\A t \in TestNames :
          (AssignAll \/ AssignTest) /\ lua[1].userAssignments[t] # ""
          => lua'[1].userAssignments[t] = lua[1].userAssignments[t]]_vars

----------------------------------------------------------------------------
(* The recency weight as a function of its arguments *)

\* decay rates as fractions: 0.9, 1, 0.5, 0.1 and, outside (0,1], 0 and 2;
\* <<>> is a call without a decay rate
DecayRates ==
    {Undefined} \cup {Some([num |-> n, den |-> 10]) : n \in {9, 10, 5, 1, 0, 20}}

\* timestamps of visits, one day before the first day up to three days after
Timestamps == {FirstDay + k * MS_PER_DAY : k \in (0 - 1)..3}

\* the page calls calculateWeight(timestamp, decayRate)
CalculateWeight ==
    /\ Cardinality(weights) < MaxWeights
    /\ \E timestamp \in Timestamps, decayRate \in DecayRates :
        weights' = weights \cup {[timestamp |-> timestamp, decayRate |-> decayRate, at |-> now,
                                  weight |-> calculateWeight(timestamp, decayRate, now)]}
    /\ UNCHANGED <<abortable, now, storage, hist, cache, req, uuids, seen, recorded, started, lua>>

NextWeight ==
    \/ CalculateWeight
    \/ Tick

SpecWeight == InitStore /\ [][NextWeight]_vars

----------------------------------------------------------------------------
\* Claims about the recency weight

\* the decay rate of a call, the default for a call without one
RateOf(c) == IF c.decayRate = <<>> THEN DEFAULT_DECAY_RATE ELSE c.decayRate[1]

\* the age of the visit of a call in days, 0 for a visit of the future
AgeOf(c) == IF c.at <= c.timestamp THEN 0 ELSE (c.at - c.timestamp) \div MS_PER_DAY

\* the decay rate of a call lies in (0,1]
Decaying(c) == 0 < RateOf(c).num /\ RateOf(c).num <= RateOf(c).den

----------------------------------------------------------------------------
\* Claims about the order of the decision policy

\* request r came with a catalog and a custom rule that accepts its context
RuleAccepts(r) == Accepting(r) # {} /\ req[r].options.templates # <<>>

\* C26 as stated: a request with AI enabled and an accepting custom rule is
\* decided by the rule, with the source 'custom-rule', and neither the cache
\* nor the model is consulted
C26_RulesBeforeModel ==
    \A r \in DOMAIN req :
        (Done(r) /\ req[r].options.enableAI /\ RuleAccepts(r))
        => /\ req[r].result.kind = "decision"
           /\ req[r].result.decision.source = "custom-rule"
           /\ req[r].look = ""
           /\ req[r].calls = 0

\* C26: a request with AI enabled and a usable AI configuration looks into
\* the cache and asks the model before any custom rule is checked: an
\* accepting rule decides, with the source 'custom-rule', only when the AI
\* decision has failed and the deterministic engine runs as the fallback;
\* a request that does not use the AI engine is decided by the rule
C26_ModelBeforeRules ==
    \A r \in DOMAIN req :
        (Done(r) /\ RuleAccepts(r))
        => IF usesAI(req[r].entry, req[r].options)
           THEN /\ Config(r).cacheDecisions => req[r].look # ""
                /\ req[r].look # "hit" => req[r].calls >= 1
                /\ req[r].aiErr = ""
                     => /\ req[r].result.kind = "decision"
                        /\ req[r].result.decision.source \in {"ai", "ai-cached"}
                        /\ req[r].ran = 0
                /\ (req[r].aiErr # "" /\ req[r].result.kind = "decision")
                     => /\ req[r].result.decision.source = "custom-rule"
                        /\ req[r].ran = 1
           ELSE /\ req[r].result.kind = "decision"
                /\ req[r].result.decision.source = "custom-rule"
                /\ req[r].look = ""
                /\ req[r].calls = 0

\* a request with AI enabled whose context a custom rule accepts was
\* decided by the model
C26_Witness ==
    \E r \in DOMAIN req :
        /\ Done(r) /\ req[r].options.enableAI /\ RuleAccepts(r)
        /\ req[r].result.kind = "decision"
        /\ req[r].result.decision.source = "ai"
        /\ req[r].calls = 1

----------------------------------------------------------------------------
\* Claims about the retries

\* the reply of request r parsed but failed the validation of its mode
InvalidReply(r) ==
    /\ req[r].reply # Undefined
    /\ req[r].aiErr \in {"invalid-selection", "invalid-generation"}

\* C27: a reply that parses but fails the validation is retried as a failed
\* attempt is: a request gives up on such a reply only when the model has
\* been called maxRetries + 1 times
C27_InvalidReplyRetried ==
    \A r \in DOMAIN req :
        (Done(r) /\ InvalidReply(r) /\ Config(r).maxRetries > 0)
        => req[r].calls = Config(r).maxRetries + 1

----------------------------------------------------------------------------
(* The attempts of a request in time *)

\* requests that vary maxRetries and timeout
TimedRequests ==
    {[entry |-> e, context |-> CtxDirect,
      options |-> Options(CatalogWithDefault, NoRules, "unset", TRUE,
                          [AiConfig("key", "select", n, "unset", "false", Undefined, "false")
                              EXCEPT !.timeout = t])] :
        e \in {"aiDecide", "decide"}, n \in {Undefined, Some(0), Some(MaxBackoffs)},
        t \in {Undefined, Some(1000)}}

\* time passes for a request that waits for the model or for its backoff
Elapse(r) ==
    /\ req[r].pc \in {"fetching", "backoff"}
    /\ req[r].elapsed < Max(req[r].sentAt, req[r].failedAt) + MaxElapses * ElapseStep
    /\ req' = [req EXCEPT ![r].elapsed = @ + ElapseStep]
    /\ UNCHANGED <<abortable, weights, lua, now, storage, hist, cache, uuids, seen, recorded,
                   started>>

\* a page with or without AbortController
InitTimed ==
    /\ InitEnv /\ req = <<Idle>> /\ lua = <<>> /\ weights = {}
    /\ abortable \in BOOLEAN

NextTimed ==
    \/ \E r \in DOMAIN req, q \in TimedRequests :
        started < MaxRequests /\ Start(r, q.entry, q.context, q.options)
    \/ \E r \in DOMAIN req : FetchFailsRetried(r)
    \/ \E r \in DOMAIN req : FetchFailsLast(r)
    \/ \E r \in DOMAIN req : Retry(r)
    \/ \E r \in DOMAIN req : HeadersArrive(r)
    \/ \E r \in DOMAIN req : FetchReplies(r)
    \/ \E r \in DOMAIN req : Return(r)
    \/ \E r \in DOMAIN req : Elapse(r)

SpecTimed == InitTimed /\ [][NextTimed]_vars

\* the timer of a timeout fires and aborts the attempt
TimeoutFires ==
    \E r \in DOMAIN req :
        /\ FetchFailsRetried(r) \/ FetchFailsLast(r)
        /\ req'[r].lastErr = "timeout"

\* the timers of the page fire: no callback of setTimeout waits for ever
FairSpecTimed ==
    /\ SpecTimed
    /\ WF_vars(\E r \in DOMAIN req : Retry(r))
    /\ WF_vars(TimeoutFires)

----------------------------------------------------------------------------
\* Claims about the attempts in time

\* C28: the k-th retry of a request starts 500 * 2^(k-1) ms after the
\* failure of the attempt before it, or later
C28_ExponentialBackoff ==
    [][\A r \in DOMAIN req :
          (req[r].pc = "backoff" /\ req'[r].pc = "fetching")
          => /\ req'[r].attempt = req[r].attempt + 1
             /\ req'[r].sentAt = req'[r].elapsed
             /\ req'[r].sentAt - req[r].failedAt >= 500 * Pow(2, req'[r].attempt - 1)]_vars

\* the second retry of a request is under way, 1000 ms after the failure of
\* the first retry
C28_Witness ==
    \E r \in DOMAIN req :
        /\ req[r].pc = "fetching" /\ req[r].attempt = 2
        /\ req[r].sentAt - req[r].failedAt = 1000

\* C29: a request has at most one call to the model on the wire; an attempt
\* is issued only when none is on the wire, the attempt before it has failed
\* and no attempt of the request has got a reply
C29_OneCallOutstanding ==
    [][\A r \in DOMAIN req :
          /\ req'[r].inflight \in {0, 1}
          /\ (req[r].pc # "idle" /\ req'[r].calls > req[r].calls)
               => /\ req[r].inflight = 0
                  /\ req[r].pc = "backoff"
                  /\ req[r].lastErr # ""
                  /\ req[r].reply = Undefined
          /\ (req[r].pc = "done" /\ req'[r].pc # "idle") => req'[r] = req[r]]_vars

\* an attempt cancelled by its timeout has been followed by another one
C29_Witness ==
    \E r \in DOMAIN req :
        /\ req[r].pc = "fetching" /\ req[r].calls = 2 /\ req[r].inflight = 1
        /\ req[r].lastErr = "timeout"

\* C30: a request whose call is under way, or waits for its backoff, is
\* eventually done, whatever the model endpoint does
C30_EventuallyCompletes ==
    (\E r \in DOMAIN req : req[r].pc \in {"fetching", "backoff"})
    ~> (\A r \in DOMAIN req : req[r].pc \notin {"fetching", "backoff"})

----------------------------------------------------------------------------
(* Two decision requests of a page under way at the same time *)

\* the campaign visit arriving through another ad of the same campaign
CtxCampaignAd ==
    [CtxCampaign EXCEPT !.utm[1].utm_content = "banner", !.utm[1].utm_term = "console"]

\* requests of one traffic segment in select mode, with the cache and the
\* history on and no retry
RaceRequests ==
    {[entry |-> e, context |-> c,
      options |-> Options(CatalogWithDefault, NoRules, "unset", TRUE,
                          AiConfig("key", "select", Some(0), "unset", "unset", Undefined,
                                   "unset"))] :
        e \in {"aiDecide", "decide"}, c \in {CtxCampaign, CtxCampaignAd}}

\* the page can have two requests under way
InitRace == InitEnv /\ req = <<Idle, Idle>> /\ lua = <<>> /\ weights = {} /\ abortable = TRUE

NextRace ==
    \/ \E r \in DOMAIN req, q \in RaceRequests :
        started < MaxCacheRequests /\ Start(r, q.entry, q.context, q.options)
    \/ \E r \in DOMAIN req : FetchFailsLast(r)
    \/ \E r \in DOMAIN req : FetchReplies(r)
    \/ \E r \in DOMAIN req : Return(r)

SpecRace == InitRace /\ [][NextRace]_vars

----------------------------------------------------------------------------
\* Claims about concurrent requests

\* in this step the model's answer becomes the 'ai' decision of request r
AiDecides(r) ==
    /\ req[r].pc = "fetching" /\ req'[r].pc = "done"
    /\ req'[r].result.kind = "decision"
    /\ req'[r].result.decision.source = "ai"

\* C31: requests for one cache key are not coordinated: a request that
\* finds no entry under its key calls the model although another request
\* for the key is under way, and when its answer arrives it writes the
\* entry, over the one another request has written in the meantime, and
\* appends its visit
C31_Uncoordinated ==
    [][\A r \in DOMAIN req :
          /\ (/\ req[r].pc = "idle" /\ req'[r].pc # "idle"
              /\ ReadsCache(req'[r])
              /\ KeyOf(req'[r]) \notin DOMAIN cache)
             => req'[r].pc = "fetching" /\ req'[r].calls = 1
          /\ (AiDecides(r) /\ storage = "ok")
             => /\ req[r].calls = 1
                /\ cache'[KeyOf(req[r])] =
                     [timestamp |-> now, decision |-> jsonCopy(req'[r].result.decision)]
                /\ AppendsVisit(req'[r].result.decision.intent, "ai")]_vars

\* two requests for one key have both called the model and got its answer:
\* the history holds a visit of each and the entry is the decision of one
C31_Witness ==
    /\ storage = "ok"
    /\ Done(1) /\ Done(2)
    /\ req[1].context # req[2].context
    /\ KeyOf(req[1]) = KeyOf(req[2])
    /\ \A r \in {1, 2} :
        /\ req[r].look = "absent" /\ req[r].calls = 1
        /\ req[r].result.kind = "decision"
        /\ req[r].result.decision.source = "ai"
    /\ Len(PersistedVisits) = 2
    /\ \A i \in 1..2 : PersistedVisits[i].aiDecision
    /\ PersistedVisits[1].context # PersistedVisits[2].context
    /\ cache[KeyOf(req[1])].decision.context.utm = PersistedVisits[2].context.utm

\* request r has ended with a decision that recordVisit was called for
Recorded(r) ==
    /\ Decided(r)
    /\ req[r].result.decision.source \notin {"ai-cached", "error"}
    /\ req[r].result.decision.source = "ai" => Config(r).historyEnabled

\* visit i of the persisted history is the one request r recorded
VisitOf(r, i) ==
    /\ PersistedVisits[i].intent = req[r].result.decision.intent
    /\ PersistedVisits[i].source = req[r].result.decision.source
    /\ PersistedVisits[i].context = minimalContext(Some(req[r].context))

\* the two requests were under way at the same time: one of them wrote the
\* entry of their key, and neither found it
Overlapped ==
    /\ Done(1) /\ Done(2)
    /\ KeyOf(req[1]) = KeyOf(req[2])
    /\ req[1].look = "absent" /\ req[2].look = "absent"
    /\ \E r \in {1, 2} : Decided(r) /\ req[r].result.decision.source = "ai"

----------------------------------------------------------------------------
(* The page making requests for the traffic segments of its visitors *)

MaxSegmentRequests == 2     \* decision requests per run over the segments

\* a query string without UTM parameters
NoSearch == [param \in DOMAIN NoUtm |-> <<>>]

\* an ad of a campaign
AdSearch ==
    [NoSearch EXCEPT !.utm_source = <<"a">>, !.utm_medium = <<"b">>, !.utm_content = <<"x">>]

\* the ad, another ad of the campaign whose link has markup in it, a source
\* with a colon in it, and a source that ends like the tag of the medium
Searches ==
    {AdSearch,
     [NoSearch EXCEPT !.utm_source = <<"<", "b", ">", "a">>, !.utm_medium = <<"b">>,
                      !.utm_content = <<"y">>, !.utm_term = <<"m">>],
     [NoSearch EXCEPT !.utm_source = <<"a", "_", "m", ":", "b">>],
     [NoSearch EXCEPT !.utm_source = <<"a", "_", "m">>, !.utm_medium = <<"b">>]}

\* what detectReferrer returns without a referrer and for a search engine
DirectReferrer == [source |-> "direct", category |-> "direct", url |-> ""]

SearchReferrer == [source |-> "google", category |-> "search", url |-> "https://google.com/"]

\* the contexts LuaUTM.getContext() returns at time t: each query string on
\* a desktop without a referrer, and the ad from a search engine and on a phone
SegmentContexts(t) ==
    {getContextAt(search, DirectReferrer, Desktop, t) : search \in Searches}
    \cup {getContextAt(AdSearch, SearchReferrer, Desktop, t),
          getContextAt(AdSearch, DirectReferrer, Mobile, t)}

\* aiDecide in select mode for each of the contexts, and for the ad in
\* generate mode and with another catalog; the cache is on and keeps a
\* decision for a day, the history is off, no retry
SegmentRequests(t) ==
    {[entry |-> "aiDecide", context |-> c,
      options |-> Options(CatalogWithDefault, NoRules, "unset", TRUE,
                          AiConfig("key", "select", Some(0), "false", "unset",
                                   Some(MS_PER_DAY), "false"))] :
        c \in SegmentContexts(t)}
    \cup
    {[entry |-> "aiDecide", context |-> getContextAt(AdSearch, DirectReferrer, Desktop, t),
      options |-> Options(o.templates, NoRules, "unset", TRUE,
                          AiConfig("key", o.mode, Some(0), "false", "unset",
                                   Some(MS_PER_DAY), "false"))] :
        o \in {[templates |-> CatalogWithDefault, mode |-> "generate"],
               [templates |-> CatalogNumbered, mode |-> "select"]}}

NextSegments ==
    \/ \E r \in DOMAIN req, q \in SegmentRequests(now) :
        started < MaxSegmentRequests /\ Start(r, q.entry, q.context, q.options)
    \/ \E r \in DOMAIN req : FetchFailsLast(r)
    \/ \E r \in DOMAIN req : FetchReplies(r)
    \/ \E r \in DOMAIN req : Return(r)
    \/ Tick

SpecSegments == Init /\ [][NextSegments]_vars

----------------------------------------------------------------------------
\* Claims about the traffic segments

\* the device class the cache key tells apart
DeviceOf(context) ==
    IF context.userAgent[1].isMobile THEN "mobile"
    ELSE IF context.userAgent[1].isTablet THEN "tablet" ELSE "desktop"

\* the two contexts are of one traffic segment: they agree on utm_source,
\* utm_medium, utm_campaign, the source of the referrer, a missing one
\* counting as 'direct', and the device class
SameSegment(c1, c2) ==
    /\ c1.utm[1].utm_source = c2.utm[1].utm_source
    /\ c1.utm[1].utm_medium = c2.utm[1].utm_medium
    /\ c1.utm[1].utm_campaign = c2.utm[1].utm_campaign
    /\ OrString(c1.referrer[1].source, "direct") = OrString(c2.referrer[1].source, "direct")
    /\ DeviceOf(c1) = DeviceOf(c2)

\* the mode of the request a cached decision was made for
ModeOf(decision) == decision.aiResponse[1].mode

\* C33: a request that arrives while the cache holds, no older than its
\* cacheDuration, the AI decision of a request in the same mode and of the
\* same segment is served that decision as a cache hit, without a call to
\* the model, also when the two contexts differ in utm_content, utm_term
\* or timestamp
C33_SegmentShared ==
    [][\A r \in DOMAIN req : \A k \in DOMAIN cache :
          (/\ req[r].pc = "idle" /\ req'[r].pc # "idle"
           /\ ReadsCache(req'[r])
           /\ ModeOf(cache[k].decision) = normalizeConfig(req'[r].options.aiConfig).mode
           /\ SameSegment(cache[k].decision.context, req'[r].context)
           /\ now - cache[k].timestamp
                 <= normalizeConfig(req'[r].options.aiConfig).cacheDuration)
          => /\ req'[r].pc = "done"
             /\ req'[r].look = "hit"
             /\ req'[r].calls = 0
             /\ req'[r].result =
                  Resolved([cache[k].decision EXCEPT !.source = "ai-cached"])]_vars

\* a request was served the decision made the day before for another ad of
\* its campaign
C33_Witness ==
    \E r \in DOMAIN req :
        /\ Done(r) /\ req[r].look = "hit" /\ req[r].calls = 0
        /\ req[r].result.decision.source = "ai-cached"
        /\ req[r].result.decision.context.utm[1].utm_content
             # req[r].context.utm[1].utm_content
        /\ req[r].result.decision.context.utm[1].utm_term
             # req[r].context.utm[1].utm_term
        /\ req[r].result.decision.context.timestamp # req[r].context.timestamp
        /\ SameSegment(req[r].result.decision.context, req[r].context)

----------------------------------------------------------------------------
(* The page asking again for one segment, over the days *)

MaxExpiryRequests == 3      \* decision requests per run for the one segment

\* requests of one context that keep a decision for an hour or for a day
ExpiryRequests ==
    {[entry |-> "aiDecide", context |-> CtxDirect,
      options |-> Options(CatalogWithDefault, NoRules, "unset", TRUE,
                          AiConfig("key", "select", Some(0), "false", "unset", d, "false"))] :
        d \in {Undefined, Some(MS_PER_DAY)}}

NextExpiry ==
    \/ \E r \in DOMAIN req, q \in ExpiryRequests :
        started < MaxExpiryRequests /\ Start(r, q.entry, q.context, q.options)
    \/ \E r \in DOMAIN req : FetchFailsLast(r)
    \/ \E r \in DOMAIN req : FetchReplies(r)
    \/ \E r \in DOMAIN req : Return(r)
    \/ Tick

SpecExpiry == InitRace /\ [][NextExpiry]_vars

----------------------------------------------------------------------------
\* Claims about the life of a cache entry

\* in this step request r is served from the cache
Hits(r) == req[r].pc = "idle" /\ req'[r].pc = "done" /\ req'[r].look = "hit"

\* C35: a cache hit does not renew the entry: the step that serves an entry
\* leaves the stored entry as it is, with its timestamp and its source 'ai',
\* the timestamp of an entry is the time of the AI decision that wrote it,
\* and no request is served an entry later than cacheDuration after that
C35_HitKeepsEntry ==
    [][/\ \A r \in DOMAIN req :
            Hits(r)
            => /\ cache' = cache
               /\ cache[KeyOf(req'[r])].decision.source = "ai"
               /\ now <= cache[KeyOf(req'[r])].timestamp + Config(r)'.cacheDuration
       /\ \A k \in Written :
            /\ cache'[k].timestamp = now
            /\ \E r \in DOMAIN req : AiDecides(r) /\ k = KeyOf(req[r])]_vars

\* an entry that was served to one request is found expired by a later one
C35_Witness ==
    \E r1, r2 \in DOMAIN req :
        /\ started = 3
        /\ Done(r1) /\ req[r1].look = "hit"
        /\ req[r2].pc = "fetching" /\ req[r2].look = "expired"
        /\ KeyOf(req[r1]) = KeyOf(req[r2])

----------------------------------------------------------------------------
\* Claims about the catalog of a request

\* C36: in select mode a decision returned with the source 'ai' or
\* 'ai-cached' has an intent that is a key of the catalog of the request it
\* is returned to, whatever catalog the request had for which a cached
\* decision was made; stated for the intents that are no property of
\* Object.prototype, which the validation lets through for any catalog
C36_IntentOfOwnCatalog ==
    \A r \in DOMAIN req :
        (/\ Decided(r) /\ Config(r).mode = "select"
         /\ req[r].result.decision.source \in {"ai", "ai-cached"}
         /\ req[r].result.decision.intent \notin ProtoKeys)
        => req[r].result.decision.intent \in Keys(req[r].options.templates)


----------------------------------------------------------------------------
(* The page asking with a small history, one request after the other *)

MaxSizedRequests == 3       \* decision requests per run with the small history

\* requests that all configure aiConfig.maxHistorySize = MaxSize, with the
\* history and the fallback on, no cache and no retry
SizedRequests ==
    {[entry |-> e, context |-> c,
      options |-> Options(CatalogWithDefault, NoRules, "unset", TRUE,
                          [AiConfig("key", "select", Some(0), "unset", "false", Undefined,
                                    "unset") EXCEPT !.maxHistorySize = Some(MaxSize)])] :
        e \in Entries, c \in {CtxCampaign, CtxDirect}}

NextSized ==
    \/ \E r \in DOMAIN req, q \in SizedRequests :
        started < MaxSizedRequests /\ Start(r, q.entry, q.context, q.options)
    \/ \E r \in DOMAIN req : FetchFailsLast(r)
    \/ \E r \in DOMAIN req : FetchReplies(r)
    \/ \E r \in DOMAIN req : Return(r)

SpecSized == Init /\ [][NextSized]_vars

\* C37: when every request configures aiConfig.maxHistorySize = MaxSize, the
\* persisted history never holds more than MaxSize visits, whether the
\* requests end with an AI decision or with a fallback decision
C37_HistoryWithinSize == Len(PersistedVisits) <= MaxSize


----------------------------------------------------------------------------
\* Claims about requests that keep no history

\* C38: a step of a request that has AI enabled and is configured with
\* aiConfig.historyEnabled = false leaves the persisted history as it is,
\* whether the request ends with an AI decision or with a fallback decision
C38_HistoryUntouched ==
    [][\A r \in DOMAIN req :
          (/\ req'[r] # req[r] /\ req'[r].pc # "idle"
           /\ req'[r].options.enableAI
           /\ ~normalizeConfig(req'[r].options.aiConfig).historyEnabled)
          => hist' = hist]_vars


----------------------------------------------------------------------------
\* Claims about what the decision cache persists

\* C39: no entry of the decision cache holds the raw user-agent string or
\* the URL of the referrer of the visitor context
C39_CacheKeepsNoRawStrings ==
    \A k \in DOMAIN cache :
        \A context \in {cache[k].decision.context} :
            /\ ("userAgent" \in DOMAIN context /\ context.userAgent # <<>>)
               => ("raw" \notin DOMAIN context.userAgent[1] \/ context.userAgent[1].raw = "")
            /\ ("referrer" \in DOMAIN context /\ context.referrer # <<>>)
               => ("url" \notin DOMAIN context.referrer[1] \/ context.referrer[1].url = "")


----------------------------------------------------------------------------
\* Claims about the order of the recorded visits

\* a recordVisit call is made in this step
Records == recorded'.calls = recorded.calls + 1

\* C40: every recordVisit turns the persisted visits v into a suffix of v
\* followed by the new visit, and getLastVisit then returns the new visit
C40_AppendOnly ==
    [][Records =>
        /\ PersistedVisits' # <<>>
        /\ \E n \in 0..Len(PersistedVisits) :
              SubSeq(PersistedVisits', 1, Len(PersistedVisits') - 1)
                  = LastN(PersistedVisits, n)
        /\ recorded'.state = "same" =>
              /\ PersistedVisits'[Len(PersistedVisits')]
                    = recorded'.visits[Len(recorded'.visits)]
              /\ getLastVisit(storage', hist')
                    = <<recorded'.visits[Len(recorded'.visits)]>>]_vars

====
